---- MODULE Spec2Model ----
(***************************************************************************)
(* Model of the mini-party booking backend: the booking validator          *)
(* (handlers/booking.go validateBooking), the two request handlers         *)
(* (CreateBooking, GetBookings), the bookings table (db/database.go) and   *)
(* the admin gate (middleware AdminAuth).                                  *)
(*                                                                         *)
(* Go strings are modelled as sequences of one-character strings, so that  *)
(* trimming, length and byte-wise comparison are computed, not assumed.    *)
(***************************************************************************)
EXTENDS Integers, Sequences, FiniteSets, TLC

VARIABLES
    vin,        \* validateBooking: the struct as the caller passed it
    vb,         \* validateBooking: the struct *b, mutated in place
    verrs,      \* validateBooking: the returned []string
    vpc,        \* validateBooking: "call" before the call, "ret" after it
    toolchain,  \* the Go release that compiled the server, fixed by the build
    env,        \* the process environment (os.Getenv), fixed at start
    bookings,   \* the rows of table bookings, in rowid (insertion) order
    seq,        \* sqlite_sequence for bookings: the largest id ever assigned
    req,        \* the request served last
    resp,       \* the response written for it
    ran,        \* the handlers of the chain that ran for it
    dbcalls,    \* the database/sql calls made for it, with their outcomes
    created,    \* the bookings returned so far in 201 responses
    inflight,   \* the POST /book requests served concurrently, each with
                \* the position and the local variables of its handler
    home,       \* the Home page: backendStatus and the health-check effect
    admin,      \* the AdminDashboard page: its state and its fetchBookings calls
    sessionStorage, \* the browser's sessionStorage: the item 'adminToken'
    form        \* the BookingForm page, its handleSubmit calls and the router's location

vars == <<vin, vb, verrs, vpc, toolchain, env, bookings, seq, req, resp, ran, dbcalls, created,
          inflight, home, admin, sessionStorage, form>>

\* The state of the backend and the state of the pages of the frontend.
backend == <<vin, vb, verrs, vpc, toolchain, env, bookings, seq, req, resp, ran, dbcalls, created,
             inflight>>
frontend == <<home, admin, sessionStorage, form>>

(***************************************************************************)
(* Bounds of the model.                                                    *)
(***************************************************************************)
MaxNameLen == 2
MaxPad == 1
MaxRows == 2
NumRequests == 2
RangeMargin == 2
MaxFetches == 2
MaxSubmissions == 2

(***************************************************************************)
(* Characters and strings.                                                 *)
(***************************************************************************)
\* The byte value of each character the model uses (ASCII).
CharCode ==
    [c \in {"\t", "\n", " ", "+", "-", ".", "0", "1", "2", "3", "4", "5",
            "6", "7", "8", "9", ":", "<", ">", "@", "a", "b"} |->
        CASE c = "\t" -> 9   [] c = "\n" -> 10  [] c = " " -> 32
          [] c = "+" -> 43   [] c = "-" -> 45   [] c = "." -> 46
          [] c = "0" -> 48   [] c = "1" -> 49   [] c = "2" -> 50
          [] c = "3" -> 51   [] c = "4" -> 52   [] c = "5" -> 53
          [] c = "6" -> 54   [] c = "7" -> 55   [] c = "8" -> 56
          [] c = "9" -> 57   [] c = ":" -> 58   [] c = "<" -> 60
          [] c = ">" -> 62   [] c = "@" -> 64   [] c = "a" -> 97
          [] c = "b" -> 98]

\* unicode.IsSpace on the characters of the model, as strings.TrimSpace uses it.
IsSpace(c) == c \in {" ", "\t", "\n"}

RECURSIVE TrimLeft(_)
TrimLeft(s) ==
    IF s # <<>> /\ IsSpace(Head(s)) THEN TrimLeft(Tail(s)) ELSE s

RECURSIVE TrimRight(_)
TrimRight(s) ==
    IF s # <<>> /\ IsSpace(s[Len(s)])
    THEN TrimRight(SubSeq(s, 1, Len(s) - 1))
    ELSE s

\* strings.TrimSpace
TrimSpace(s) == TrimRight(TrimLeft(s))

\* Byte-wise comparison of two strings (Go's <, SQLite's BINARY collation).
RECURSIVE StrLess(_, _)
StrLess(s, t) ==
    IF t = <<>> THEN FALSE
    ELSE IF s = <<>> THEN TRUE
    ELSE IF Head(s) = Head(t) THEN StrLess(Tail(s), Tail(t))
    ELSE CharCode[Head(s)] < CharCode[Head(t)]

\* All strings over alphabet of length at most n.
RECURSIVE StringsUpTo(_, _)
StringsUpTo(alphabet, n) ==
    IF n = 0 THEN {<<>>}
    ELSE LET shorter == StringsUpTo(alphabet, n - 1)
         IN  shorter \cup {<<c>> \o s : c \in alphabet, s \in {t \in shorter : Len(t) = n - 1}}

\* The string made of n copies of character c.
Repeat(c, n) == [i \in 1..n |-> c]

(***************************************************************************)
(* net/mail ParseAddress (Go 1.21, the toolchain of the Dockerfile), on    *)
(* the characters of CharCode.  Quoted strings, comments, groups and       *)
(* encoded words start with a character outside that set, so their         *)
(* branches are not reached.  The parser state is the unread rest p.s.     *)
(***************************************************************************)
\* FROM golang:1.21-alpine: the tag names whatever patch release of Go 1.21
\* is current when the image is built.  The releases differ in isAtext:
\* up to 1.21.7 '@' is atext of a permissive atom, from 1.21.8 (the last
\* is 1.21.13) it is a special and never atext.
GoReleases == {"go1.21.7", "go1.21.13"}

\* addrParser.skipSpace: strings.TrimLeft(p.s, " \t")
RECURSIVE SkipSpace(_)
SkipSpace(s) ==
    IF s # <<>> /\ Head(s) \in {" ", "\t"} THEN SkipSpace(Tail(s)) ELSE s

\* isVchar: a visible ASCII character
IsVchar(c) == CharCode[c] >= 33 /\ CharCode[c] <= 126

\* isAtext(r, dot, permissive)
IsAtext(c, dot, permissive) ==
    IF c = "." THEN dot
    ELSE IF c = "@" THEN permissive /\ toolchain = "go1.21.7"
    ELSE IF c \in {"<", ">", ":"} THEN FALSE
    ELSE IsVchar(c)

\* The length of the longest prefix of s made of atext characters.
RECURSIVE AtextPrefixLen(_, _, _)
AtextPrefixLen(s, dot, permissive) ==
    IF s # <<>> /\ IsAtext(Head(s), dot, permissive)
    THEN 1 + AtextPrefixLen(Tail(s), dot, permissive)
    ELSE 0

HasDoubleDot(s) == \E i \in 1..(Len(s) - 1) : s[i] = "." /\ s[i + 1] = "."

\* addrParser.consumeAtom: [ok, rest]; rest is meaningful when ok.
ConsumeAtom(s, dot, permissive) ==
    LET i == AtextPrefixLen(s, dot, permissive)
        atom == SubSeq(s, 1, i)
    IN  IF i = 0 THEN [ok |-> FALSE, rest |-> s]
        ELSE IF ~permissive /\ (atom[1] = "." \/ HasDoubleDot(atom) \/ atom[i] = ".")
        THEN [ok |-> FALSE, rest |-> s]
        ELSE [ok |-> TRUE, rest |-> SubSeq(s, i + 1, Len(s))]

\* addrParser.consumeAddrSpec: local-part "@" domain; on error p is restored.
ConsumeAddrSpec(s) ==
    LET fail == [ok |-> FALSE, rest |-> s]
        s1 == SkipSpace(s)
        loc == ConsumeAtom(s1, TRUE, FALSE)
    IN  IF s1 = <<>> THEN fail
        ELSE IF ~loc.ok THEN fail
        ELSE IF loc.rest = <<>> \/ Head(loc.rest) # "@" THEN fail
        ELSE LET s2 == SkipSpace(Tail(loc.rest))
                 dom == ConsumeAtom(s2, TRUE, FALSE)
             IN  IF s2 = <<>> THEN fail
                 ELSE IF ~dom.ok THEN fail
                 ELSE [ok |-> TRUE, rest |-> dom.rest]

\* addrParser.consumePhrase: 1*word, each word a permissive dot-atom; the
\* error of a later word is ignored once one word was read.
RECURSIVE PhraseRest(_, _)
PhraseRest(s, nwords) ==
    LET s1 == SkipSpace(s)
        w == ConsumeAtom(s1, TRUE, TRUE)
    IN  IF s1 = <<>> THEN [ok |-> TRUE, rest |-> s1]
        ELSE IF ~w.ok THEN [ok |-> nwords > 0, rest |-> s1]
        ELSE PhraseRest(w.rest, nwords + 1)

ConsumePhrase(s) == PhraseRest(s, 0)

\* parseSingleAddress after the mailbox: skipCFWS, then p must be empty.
AtEnd(rest) == SkipSpace(rest) = <<>>

\* angle-addr, after consumeAddrSpec: ">" must follow at once.
AngleClose(inner) ==
    /\ inner.ok
    /\ inner.rest # <<>>
    /\ Head(inner.rest) = ">"
    /\ AtEnd(Tail(inner.rest))

\* angle-addr = "<" addr-spec ">"
AngleAddr(s) ==
    IF s = <<>> \/ Head(s) # "<" THEN FALSE
    ELSE AngleClose(ConsumeAddrSpec(Tail(s)))

\* name-addr, after the display name was read (or skipped).
AfterDisplayName(ph) == ph.ok /\ AngleAddr(SkipSpace(ph.rest))

\* name-addr = [display-name] angle-addr
NameAddr(s) ==
    AfterDisplayName(IF Head(s) # "<" THEN ConsumePhrase(s)
                     ELSE [ok |-> TRUE, rest |-> s])

\* addrParser.parseAddress: the addr-spec is tried first, name-addr second.
AddrSpecOrNameAddr(s, spec) ==
    IF spec.ok THEN AtEnd(spec.rest) ELSE NameAddr(s)

\* addrParser.parseAddress(true), s being p.s after skipSpace.
Mailbox(s) ==
    IF s = <<>> THEN FALSE ELSE AddrSpecOrNameAddr(s, ConsumeAddrSpec(s))

\* mail.ParseAddress(s) returns a nil error: parseSingleAddress succeeded.
ParseAddressOk(s) == Mailbox(SkipSpace(s))

(***************************************************************************)
(* models.Booking and handlers.validateBooking.                            *)
(***************************************************************************)
\* The limits written in validateBooking.
MinPhoneLen == 7
MinDuration == 1
MaxDuration == 8
MinGuests == 1
MaxGuests == 100

\* Home.jsx: const maxAttempts = 6.
maxAttempts == 6

\* models.Booking
Booking(id, name, email, phone, date, time, duration, guests) ==
    [id |-> id, name |-> name, email |-> email, phone |-> phone,
     date |-> date, time |-> time, duration |-> duration, guests |-> guests]

\* The messages validateBooking appends.
MsgName == "Name is required"
MsgEmail == "Valid email is required"
MsgPhone == "Valid phone number is required"
MsgDate == "Date is required"
MsgTime == "Time is required"
MsgDuration == "Duration must be between 1 and 8 hours"
MsgGuests == "Guests must be between 1 and 100"

\* errs = append(errs, msg) when cond holds
AppendIf(errs, cond, msg) == IF cond THEN Append(errs, msg) ELSE errs

\* validateBooking with the phone measured before it is trimmed.
validateBookingPhoneUntrimmed(b) ==
    LET b1 == [b EXCEPT !.name = TrimSpace(b.name),
                        !.email = TrimSpace(b.email),
                        !.phone = TrimSpace(b.phone)]
        e1 == AppendIf(<<>>, b1.name = <<>>, MsgName)
        e2 == AppendIf(e1, ~ParseAddressOk(b1.email), MsgEmail)
        e3 == AppendIf(e2, Len(b.phone) < MinPhoneLen, MsgPhone)
        e4 == AppendIf(e3, b1.date = <<>>, MsgDate)
        e5 == AppendIf(e4, b1.time = <<>>, MsgTime)
        e6 == AppendIf(e5, b1.duration < MinDuration \/ b1.duration > MaxDuration, MsgDuration)
        e7 == AppendIf(e6, b1.guests < MinGuests \/ b1.guests > MaxGuests, MsgGuests)
    IN  [b |-> b1, errs |-> e7]

\* validateBooking trimming date and time as well.
validateBookingTrimsAll(b) ==
    LET b1 == [b EXCEPT !.name = TrimSpace(b.name),
                        !.email = TrimSpace(b.email),
                        !.phone = TrimSpace(b.phone),
                        !.date = TrimSpace(b.date),
                        !.time = TrimSpace(b.time)]
        e1 == AppendIf(<<>>, b1.name = <<>>, MsgName)
        e2 == AppendIf(e1, ~ParseAddressOk(b1.email), MsgEmail)
        e3 == AppendIf(e2, Len(b1.phone) < MinPhoneLen, MsgPhone)
        e4 == AppendIf(e3, b1.date = <<>>, MsgDate)
        e5 == AppendIf(e4, b1.time = <<>>, MsgTime)
        e6 == AppendIf(e5, b1.duration < MinDuration \/ b1.duration > MaxDuration, MsgDuration)
        e7 == AppendIf(e6, b1.guests < MinGuests \/ b1.guests > MaxGuests, MsgGuests)
    IN  [b |-> b1, errs |-> e7]

\* validateBooking with the bounds of duration and guests excluded.
validateBookingExclusiveRanges(b) ==
    LET b1 == [b EXCEPT !.name = TrimSpace(b.name),
                        !.email = TrimSpace(b.email),
                        !.phone = TrimSpace(b.phone)]
        e1 == AppendIf(<<>>, b1.name = <<>>, MsgName)
        e2 == AppendIf(e1, ~ParseAddressOk(b1.email), MsgEmail)
        e3 == AppendIf(e2, Len(b1.phone) < MinPhoneLen, MsgPhone)
        e4 == AppendIf(e3, b1.date = <<>>, MsgDate)
        e5 == AppendIf(e4, b1.time = <<>>, MsgTime)
        e6 == AppendIf(e5, b1.duration <= MinDuration \/ b1.duration >= MaxDuration, MsgDuration)
        e7 == AppendIf(e6, b1.guests <= MinGuests \/ b1.guests >= MaxGuests, MsgGuests)
    IN  [b |-> b1, errs |-> e7]

\* validateBooking checking the numeric fields before the strings.
validateBookingNumbersFirst(b) ==
    LET b1 == [b EXCEPT !.name = TrimSpace(b.name),
                        !.email = TrimSpace(b.email),
                        !.phone = TrimSpace(b.phone)]
        e1 == AppendIf(<<>>, b1.duration < MinDuration \/ b1.duration > MaxDuration, MsgDuration)
        e2 == AppendIf(e1, b1.guests < MinGuests \/ b1.guests > MaxGuests, MsgGuests)
        e3 == AppendIf(e2, b1.name = <<>>, MsgName)
        e4 == AppendIf(e3, ~ParseAddressOk(b1.email), MsgEmail)
        e5 == AppendIf(e4, Len(b1.phone) < MinPhoneLen, MsgPhone)
        e6 == AppendIf(e5, b1.date = <<>>, MsgDate)
        e7 == AppendIf(e6, b1.time = <<>>, MsgTime)
    IN  [b |-> b1, errs |-> e7]

\* validateBooking returning at the first failed rule.
validateBookingFirstError(b) ==
    LET b1 == [b EXCEPT !.name = TrimSpace(b.name),
                        !.email = TrimSpace(b.email),
                        !.phone = TrimSpace(b.phone)]
    IN  [b |-> b1,
         errs |-> IF b1.name = <<>> THEN <<MsgName>>
                  ELSE IF ~ParseAddressOk(b1.email) THEN <<MsgEmail>>
                  ELSE IF Len(b1.phone) < MinPhoneLen THEN <<MsgPhone>>
                  ELSE IF b1.date = <<>> THEN <<MsgDate>>
                  ELSE IF b1.time = <<>> THEN <<MsgTime>>
                  ELSE IF b1.duration < MinDuration \/ b1.duration > MaxDuration
                  THEN <<MsgDuration>>
                  ELSE IF b1.guests < MinGuests \/ b1.guests > MaxGuests
                  THEN <<MsgGuests>>
                  ELSE <<>>]

\* validateBooking(b): trims name, email and phone in *b, then checks the
\* seven rules one after the other, appending a message per failed rule.
\* The result is the struct as left in *b and the returned slice.
validateBooking(b) ==
    LET b1 == [b EXCEPT !.name = TrimSpace(b.name),
                        !.email = TrimSpace(b.email),
                        !.phone = TrimSpace(b.phone)]
        e1 == AppendIf(<<>>, b1.name = <<>>, MsgName)
        e2 == AppendIf(e1, ~ParseAddressOk(b1.email), MsgEmail)
        e3 == AppendIf(e2, Len(b1.phone) < MinPhoneLen, MsgPhone)
        e4 == AppendIf(e3, b1.date = <<>>, MsgDate)
        e5 == AppendIf(e4, b1.time = <<>>, MsgTime)
        e6 == AppendIf(e5, b1.duration < MinDuration \/ b1.duration > MaxDuration, MsgDuration)
        e7 == AppendIf(e6, b1.guests < MinGuests \/ b1.guests > MaxGuests, MsgGuests)
    IN  [b |-> b1, errs |-> e7]

(***************************************************************************)
(* Candidate field values.                                                 *)
(***************************************************************************)
DateA == <<"2", "0", "2", "6", "-", "0", "1", "-", "0", "1">>
DateB == <<"2", "0", "2", "6", "-", "0", "1", "-", "0", "2">>
TimeA == <<"0", "9", ":", "3", "0">>
TimeB == <<"1", "8", ":", "0", "0">>
JaneEmail == <<"a", "@", "a", ".", "b">>
JanePhone == <<"+", "1", "2", "3", "4", "5", "6", "7", "8", "9", "0">>

CandidateNames == StringsUpTo({" ", "a"}, MaxNameLen)

CandidateEmails ==
    { <<>>,
      <<"a">>,
      <<"a", "@">>,
      <<"@", "a">>,
      <<"a", "@", "a">>,
      <<" ", "a", "@", "a", " ">>,
      <<"\n", "a", "@", "a">>,
      <<"a", ".", ".", "b", "@", "a">>,
      <<"a", " ", "<", "a", "@", "a", ">">>,
      <<"@", " ", "<", "a", "@", "a", ">">>,
      <<"a", "@", "a", " ", "b", "@", "a">>,
      JaneEmail }

\* A run of characters of JanePhone with at most MaxPad blanks around it.
CandidatePhones ==
    { Repeat(" ", l) \o SubSeq(JanePhone, 1, n) \o Repeat(" ", r) :
        n \in {0, MinPhoneLen - 1, MinPhoneLen},
        l \in 0..MaxPad, r \in 0..MaxPad }

CandidateDates == { <<>>, <<" ">>, DateA }
CandidateTimes == { <<>>, TimeB }
CandidateDurations == { MinDuration - 1, MinDuration, MaxDuration, MaxDuration + 1 }
CandidateGuests == { MinGuests - 1, MinGuests, MaxGuests, MaxGuests + 1 }

(***************************************************************************)
(* Requests: JSON bodies and headers.                                      *)
(***************************************************************************)
\* JSON values of a request body.
JStr(x) == [t |-> "string", s |-> x, n |-> 0]
JNum(x) == [t |-> "number", s |-> <<>>, n |-> x]

\* A body is a text that is JSON or not; a JSON body is an object.
JsonBody(obj) == [syntax |-> TRUE, obj |-> obj]
NotJson == [syntax |-> FALSE, obj |-> [x \in {} |-> 0]]

StringFields == {"name", "email", "phone", "date", "time"}
IntFields == {"id", "duration", "guests"}

\* ShouldBindJSON with its error dropped: what could be decoded is kept.
ShouldBindJSONErrorIgnored(body) ==
    LET obj == body.obj
        str(k) == IF k \in DOMAIN obj /\ obj[k].t = "string" THEN obj[k].s ELSE <<>>
        int(k) == IF k \in DOMAIN obj /\ obj[k].t = "number" THEN obj[k].n ELSE 0
    IN  [ok |-> TRUE,
         b |-> Booking(int("id"), str("name"), str("email"), str("phone"),
                       str("date"), str("time"), int("duration"), int("guests"))]

\* c.ShouldBindJSON(&booking): the body must be JSON and every member that
\* names a field must have the field's type; a field without member keeps
\* its zero value.  The struct has no binding tags, so nothing else is checked.
ShouldBindJSON(body) ==
    LET obj == body.obj
        keys == DOMAIN obj
        str(k) == IF k \in keys THEN obj[k].s ELSE <<>>
        int(k) == IF k \in keys THEN obj[k].n ELSE 0
        typed == /\ \A k \in keys \cap StringFields : obj[k].t = "string"
                 /\ \A k \in keys \cap IntFields : obj[k].t = "number"
    IN  IF body.syntax /\ typed
        THEN [ok |-> TRUE,
              b |-> Booking(int("id"), str("name"), str("email"), str("phone"),
                            str("date"), str("time"), int("duration"), int("guests"))]
        ELSE [ok |-> FALSE, b |-> Booking(0, <<>>, <<>>, <<>>, <<>>, <<>>, 0, 0)]

JaneName == <<"a", " ", "b">>

\* The example request of the README (on the characters of the model).
JaneBody ==
    JsonBody([name |-> JStr(JaneName), email |-> JStr(JaneEmail),
              phone |-> JStr(JanePhone), date |-> JStr(DateB), time |-> JStr(TimeB),
              duration |-> JNum(3), guests |-> JNum(25)])

\* The bodies sent to POST /book.
Bodies ==
    { NotJson,
      \* duration sent as a string: a type error of the binding
      JsonBody([name |-> JStr(JaneName), email |-> JStr(JaneEmail),
                phone |-> JStr(JanePhone), date |-> JStr(DateB), time |-> JStr(TimeB),
                duration |-> JStr(<<"3">>), guests |-> JNum(25)]),
      JaneBody,
      \* the same with an id supplied by the caller
      JsonBody([id |-> JNum(7), name |-> JStr(JaneName), email |-> JStr(JaneEmail),
                phone |-> JStr(JanePhone), date |-> JStr(DateB), time |-> JStr(TimeB),
                duration |-> JNum(3), guests |-> JNum(25)]),
      \* blanks around name, email and phone; an earlier date
      JsonBody([name |-> JStr(<<" ", "b">>), email |-> JStr(<<" ", "a", "@", "a", "\n">>),
                phone |-> JStr(<<"\t">> \o JanePhone \o <<" ">>),
                date |-> JStr(DateA), time |-> JStr(TimeB),
                duration |-> JNum(MinDuration), guests |-> JNum(MaxGuests)]),
      \* the earlier date and an earlier time
      JsonBody([name |-> JStr(<<"a">>), email |-> JStr(<<"b", "@", "a">>),
                phone |-> JStr(JanePhone), date |-> JStr(DateA), time |-> JStr(TimeA),
                duration |-> JNum(MaxDuration), guests |-> JNum(MinGuests)]),
      \* only a name: six rules fail, duration and guests are 0
      JsonBody([name |-> JStr(JaneName)]),
      \* a blank name and too many guests
      JsonBody([name |-> JStr(<<" ">>), email |-> JStr(JaneEmail),
                phone |-> JStr(JanePhone), date |-> JStr(DateA), time |-> JStr(TimeA),
                duration |-> JNum(3), guests |-> JNum(MaxGuests + 1)]),
      \* a phone of seven characters of which one is a blank
      JsonBody([name |-> JStr(JaneName), email |-> JStr(JaneEmail),
                phone |-> JStr(SubSeq(JanePhone, 1, MinPhoneLen - 1) \o <<" ">>),
                date |-> JStr(DateA), time |-> JStr(TimeA),
                duration |-> JNum(3), guests |-> JNum(25)]) }

\* A header or an environment variable: present with a value, or absent.
Present(v) == [set |-> TRUE, val |-> v]
Absent == [set |-> FALSE, val |-> ""]

\* c.GetHeader / os.Getenv: the value, "" when absent.
ValueOf(x) == IF x.set THEN x.val ELSE ""

\* The values ADMIN_SECRET has at start, and the X-Admin-Token headers sent.
AdminSecrets == { Absent, Present(""), Present("s3cret") }
AdminTokens == { Absent, Present(""), Present("s3cret"), Present("S3CRET"), Present("s3cre") }

(***************************************************************************)
(* Responses.                                                              *)
(***************************************************************************)
NoBooking == Booking(0, <<>>, <<>>, <<>>, <<>>, <<>>, 0, 0)

\* c.JSON(status, body): error is gin.H "error", errors is gin.H "errors",
\* booking is gin.H "booking"; list is the array of GET /bookings and null
\* tells that the body is the JSON value null.
Response(status, error, errors, hasBooking, booking, null, list) ==
    [status |-> status, error |-> error, errors |-> errors,
     hasBooking |-> hasBooking, booking |-> booking, null |-> null, list |-> list]

ErrorResponse(status, error) ==
    Response(status, error, <<>>, FALSE, NoBooking, FALSE, <<>>)

NoRequest == [op |-> "none", body |-> NotJson, token |-> Absent]
NoResponse == ErrorResponse(0, "")

\* One call of database/sql made while serving a request, and its outcome.
DbCall(call, ok) == [call |-> call, ok |-> ok]

\* The requests that may be in flight at the same time, and a handler that
\* has not been entered: no body bound, no sql.Result, nothing written.
Requests == 1..NumRequests
NoHandler ==
    [pc |-> "idle", body |-> NotJson, booking |-> NoBooking, result |-> 0,
     resp |-> NoResponse, calls |-> <<>>]

(***************************************************************************)
(* The pages of the frontend before they are mounted.                      *)
(***************************************************************************)
\* Home: useState('waking'); no effect has run, no request was issued.
\* requests counts the GET /health requests issued, outcomes lists how the
\* settled ones ended, late counts the requests issued after the unmount
\* and timerAtUnmount tells whether a retry timer was pending then.
HomeIdle ==
    [mounted |-> FALSE, backendStatus |-> "waking", cancelled |-> FALSE, attempt |-> 0,
     fetching |-> FALSE, timer |-> FALSE, requests |-> 0, outcomes |-> <<>>,
     late |-> 0, timerAtUnmount |-> FALSE]

\* AdminDashboard: the useState initial values, no fetchBookings call in
\* flight. event tells the last step of the page; accepted holds the tokens
\* a GET /bookings was answered successfully for; loggedOut holds from a
\* handleLogout until a login made after it succeeds.
NoEvent == [op |-> "none", token |-> "", outcome |-> "", live |-> FALSE]
AdminIdle ==
    [mounted |-> FALSE, token |-> "", authenticated |-> FALSE, bookings |-> <<>>,
     loading |-> FALSE, error |-> "", fetches |-> <<>>,
     event |-> NoEvent, accepted |-> {}, loggedOut |-> FALSE]

\* The router's location: the path shown and the state handed to navigate.
Location(pathname, hasState, booking) ==
    [pathname |-> pathname, hasState |-> hasState, booking |-> booking]

\* What the last step of the BookingForm page was (none before the first).
NoSubmission ==
    [op |-> "none", live |-> FALSE, delivered |-> FALSE, response |-> NoResponse]

\* The BookingForm page before it is shown: errors [], submitting false, no
\* handleSubmit call in flight; started counts the submissions made.
FormIdle ==
    [mounted |-> FALSE, errors |-> <<>>, submitting |-> FALSE, calls |-> <<>>,
     started |-> 0, location |-> Location("/", FALSE, NoBooking), event |-> NoSubmission]

FrontendIdle ==
    /\ home = HomeIdle
    /\ admin = AdminIdle
    /\ sessionStorage = [adminToken |-> Absent]
    /\ form = FormIdle

(***************************************************************************)
(* The server at rest.                                                     *)
(***************************************************************************)
ServerIdle ==
    /\ toolchain \in GoReleases
    /\ env = [ADMIN_SECRET |-> Absent]
    /\ bookings = <<>>
    /\ seq = 0
    /\ req = NoRequest
    /\ resp = NoResponse
    /\ ran = {}
    /\ dbcalls = <<>>
    /\ created = {}
    /\ inflight = [p \in Requests |-> NoHandler]
    /\ FrontendIdle

ValidatorIdle ==
    /\ vin = NoBooking
    /\ vb = NoBooking
    /\ verrs = <<>>
    /\ vpc = "idle"

(***************************************************************************)
(* The bookings table (db.Init: id INTEGER PRIMARY KEY AUTOINCREMENT).     *)
(***************************************************************************)
RECURSIVE MaxId(_)
MaxId(rows) ==
    IF rows = <<>> THEN 0
    ELSE LET m == MaxId(Tail(rows))
         IN  IF Head(rows).id > m THEN Head(rows).id ELSE m

\* An id that is the current largest one instead of the one after it.
NextRowIdReused(rows, sq) == IF rows = <<>> THEN 1 ELSE MaxId(rows)

\* AUTOINCREMENT: one more than the largest id the table ever held.
NextRowId(rows, sq) == (IF MaxId(rows) > sq THEN MaxId(rows) ELSE sq) + 1

\* ORDER BY date ASC, time ASC: a comes strictly before b.
RowBefore(a, b) ==
    \/ StrLess(a.date, b.date)
    \/ a.date = b.date /\ StrLess(a.time, b.time)

\* The results the SELECT ... ORDER BY date ASC, time ASC can deliver: every
\* row once, in an order that respects the sort key; the order of rows with
\* equal date and time is left to the engine.
SelectOrdered(rows) ==
    LET n == Len(rows)
    IN  IF n = 0 THEN {<<>>}
        ELSE { [i \in 1..n |-> rows[p[i]]] :
                 p \in { q \in Permutations(1..n) :
                           \A i, j \in 1..n :
                               i < j => ~RowBefore(rows[q[j]], rows[q[i]]) } }

\* The rows for loop of GetBookings: of result, rows.Next() delivers the
\* first k; the rows whose Scan fails (positions in bad) are skipped.
RECURSIVE ScanRows(_, _, _, _)
ScanRows(result, k, bad, i) ==
    IF i > k THEN <<>>
    ELSE (IF i \in bad THEN <<>> ELSE <<result[i]>>) \o ScanRows(result, k, bad, i + 1)

\* The database/sql calls of that loop: a Scan per delivered row, and the
\* failing Next when the iteration broke off before the end.
ScanCalls(n, k, bad) ==
    [i \in 1..k |-> DbCall("Scan", i \notin bad)]
        \o (IF k < n THEN <<DbCall("Next", FALSE)>> ELSE <<>>)

(***************************************************************************)
(* POST /book: handlers.CreateBooking.                                     *)
(***************************************************************************)
\* CreateBooking without the return after the validation errors were sent:
\* the record is inserted all the same.
CreateBookingNoReturn ==
    \E body \in Bodies :
        LET bind == ShouldBindJSON(body)
            v == validateBooking(bind.b)
            id == NextRowId(bookings, seq)
            stored == [v.b EXCEPT !.id = id]
        IN  /\ req' = [op |-> "create", body |-> body, token |-> Absent]
            /\ ran' = {"CreateBooking"}
            /\ IF ~bind.ok
               THEN /\ resp' = ErrorResponse(400, "Invalid request body")
                    /\ dbcalls' = <<>>
                    /\ UNCHANGED <<bookings, seq, created>>
               ELSE /\ Len(bookings) < MaxRows
                    /\ bookings' = Append(bookings, stored)
                    /\ seq' = id
                    /\ dbcalls' = <<DbCall("Exec", TRUE), DbCall("LastInsertId", TRUE)>>
                    /\ IF Len(v.errs) > 0
                       THEN /\ resp' = Response(400, "", v.errs, FALSE, NoBooking, FALSE, <<>>)
                            /\ UNCHANGED created
                       ELSE /\ resp' = Response(201, "", <<>>, TRUE, stored, FALSE, <<>>)
                            /\ created' = created \cup {stored}
            /\ UNCHANGED <<toolchain, env, vin, vb, verrs, vpc, inflight, frontend>>

\* CreateBooking with a double-booking check: a record whose date and time
\* are those of a stored row is refused.
CreateBookingUniqueSlot ==
    \E body \in Bodies :
        LET bind == ShouldBindJSON(body)
            v == validateBooking(bind.b)
            id == NextRowId(bookings, seq)
            stored == [v.b EXCEPT !.id = id]
            taken == \E i \in 1..Len(bookings) :
                        bookings[i].date = v.b.date /\ bookings[i].time = v.b.time
        IN  /\ req' = [op |-> "create", body |-> body, token |-> Absent]
            /\ ran' = {"CreateBooking"}
            /\ IF ~bind.ok
               THEN /\ resp' = ErrorResponse(400, "Invalid request body")
                    /\ dbcalls' = <<>>
                    /\ UNCHANGED <<bookings, seq, created>>
               ELSE IF Len(v.errs) > 0
               THEN /\ resp' = Response(400, "", v.errs, FALSE, NoBooking, FALSE, <<>>)
                    /\ dbcalls' = <<>>
                    /\ UNCHANGED <<bookings, seq, created>>
               ELSE IF taken
               THEN /\ resp' = ErrorResponse(409, "Slot already booked")
                    /\ dbcalls' = <<>>
                    /\ UNCHANGED <<bookings, seq, created>>
               ELSE /\ Len(bookings) < MaxRows
                    /\ bookings' = Append(bookings, stored)
                    /\ seq' = id
                    /\ resp' = Response(201, "", <<>>, TRUE, stored, FALSE, <<>>)
                    /\ dbcalls' = <<DbCall("Exec", TRUE), DbCall("LastInsertId", TRUE)>>
                    /\ created' = created \cup {stored}
            /\ UNCHANGED <<toolchain, env, vin, vb, verrs, vpc, inflight, frontend>>

\* CreateBooking inserting the id of the request body when it has one.
CreateBookingKeepsSuppliedId ==
    \E body \in Bodies :
        LET bind == ShouldBindJSON(body)
            v == validateBooking(bind.b)
            id == IF v.b.id # 0 THEN v.b.id ELSE NextRowId(bookings, seq)
            stored == [v.b EXCEPT !.id = id]
        IN  /\ req' = [op |-> "create", body |-> body, token |-> Absent]
            /\ ran' = {"CreateBooking"}
            /\ IF ~bind.ok
               THEN /\ resp' = ErrorResponse(400, "Invalid request body")
                    /\ dbcalls' = <<>>
                    /\ UNCHANGED <<bookings, seq, created>>
               ELSE IF Len(v.errs) > 0
               THEN /\ resp' = Response(400, "", v.errs, FALSE, NoBooking, FALSE, <<>>)
                    /\ dbcalls' = <<>>
                    /\ UNCHANGED <<bookings, seq, created>>
               ELSE /\ Len(bookings) < MaxRows
                    /\ \A i \in 1..Len(bookings) : bookings[i].id # id
                    /\ bookings' = Append(bookings, stored)
                    /\ seq' = (IF id > seq THEN id ELSE seq)
                    /\ resp' = Response(201, "", <<>>, TRUE, stored, FALSE, <<>>)
                    /\ dbcalls' = <<DbCall("Exec", TRUE), DbCall("LastInsertId", TRUE)>>
                    /\ created' = created \cup {stored}
            /\ UNCHANGED <<toolchain, env, vin, vb, verrs, vpc, inflight, frontend>>

\* CreateBooking running the INSERT a second time when the first attempt
\* failed.
CreateBookingRetry ==
    \E body \in Bodies :
        LET bind == ShouldBindJSON(body)
            v == validateBooking(bind.b)
            id == NextRowId(bookings, seq)
            stored == [v.b EXCEPT !.id = id]
        IN  /\ req' = [op |-> "create", body |-> body, token |-> Absent]
            /\ ran' = {"CreateBooking"}
            /\ IF ~bind.ok
               THEN /\ resp' = ErrorResponse(400, "Invalid request body")
                    /\ dbcalls' = <<>>
                    /\ UNCHANGED <<bookings, seq, created>>
               ELSE IF Len(v.errs) > 0
               THEN /\ resp' = Response(400, "", v.errs, FALSE, NoBooking, FALSE, <<>>)
                    /\ dbcalls' = <<>>
                    /\ UNCHANGED <<bookings, seq, created>>
               ELSE \E execOk \in BOOLEAN :
                    /\ Len(bookings) < MaxRows
                    /\ bookings' = Append(bookings, stored)
                    /\ seq' = id
                    /\ resp' = Response(201, "", <<>>, TRUE, stored, FALSE, <<>>)
                    /\ dbcalls' = (IF execOk THEN <<>> ELSE <<DbCall("Exec", FALSE)>>)
                                    \o <<DbCall("Exec", TRUE), DbCall("LastInsertId", TRUE)>>
                    /\ created' = created \cup {stored}
            /\ UNCHANGED <<toolchain, env, vin, vb, verrs, vpc, inflight, frontend>>

CreateBooking ==
    \E body \in Bodies :
        LET bind == ShouldBindJSON(body)
            v == validateBooking(bind.b)
            id == NextRowId(bookings, seq)
            stored == [v.b EXCEPT !.id = id]
        IN  /\ req' = [op |-> "create", body |-> body, token |-> Absent]
            /\ ran' = {"CreateBooking"}
            /\ IF ~bind.ok
               THEN /\ resp' = ErrorResponse(400, "Invalid request body")
                    /\ dbcalls' = <<>>
                    /\ UNCHANGED <<bookings, seq, created>>
               ELSE IF Len(v.errs) > 0
               THEN /\ resp' = Response(400, "", v.errs, FALSE, NoBooking, FALSE, <<>>)
                    /\ dbcalls' = <<>>
                    /\ UNCHANGED <<bookings, seq, created>>
               ELSE \E execOk \in BOOLEAN :
                    IF ~execOk
                    THEN /\ resp' = ErrorResponse(500, "Failed to save booking")
                         /\ dbcalls' = <<DbCall("Exec", FALSE)>>
                         /\ UNCHANGED <<bookings, seq, created>>
                    ELSE /\ Len(bookings) < MaxRows
                         /\ bookings' = Append(bookings, stored)
                         /\ seq' = id
                         /\ \E idOk \in BOOLEAN :
                            IF ~idOk
                            THEN /\ resp' = ErrorResponse(500, "Failed to retrieve booking ID")
                                 /\ dbcalls' = <<DbCall("Exec", TRUE),
                                                 DbCall("LastInsertId", FALSE)>>
                                 /\ UNCHANGED created
                            ELSE /\ resp' = Response(201, "", <<>>, TRUE, stored, FALSE, <<>>)
                                 /\ dbcalls' = <<DbCall("Exec", TRUE),
                                                 DbCall("LastInsertId", TRUE)>>
                                 /\ created' = created \cup {stored}
            /\ UNCHANGED <<toolchain, env, vin, vb, verrs, vpc, inflight, frontend>>

(***************************************************************************)
(* GET /bookings: middleware.AdminAuth, then handlers.GetBookings.         *)
(***************************************************************************)
\* AdminAuth reduced to the comparison of token and secret.
AdminAuthCompareOnly(environ, token) ==
    IF ValueOf(token) # ValueOf(environ.ADMIN_SECRET) THEN 401 ELSE 0

\* AdminAuth: the status it answers with, or 0 when it calls c.Next().
AdminAuth(environ, token) ==
    LET secret == ValueOf(environ.ADMIN_SECRET)
        presented == ValueOf(token)
    IN  IF secret = "" THEN 500
        ELSE IF presented = "" \/ presented # secret THEN 401
        ELSE 0

\* GetBookings emptying the table once it has listed the rows.
GetBookingsClearing ==
    \E token \in AdminTokens :
        LET gate == AdminAuth(env, token)
        IN  /\ req' = [op |-> "list", body |-> NotJson, token |-> token]
            /\ IF gate # 0
               THEN /\ resp' = ErrorResponse(gate, IF gate = 500
                                                   THEN "Admin access is not configured"
                                                   ELSE "Unauthorized")
                    /\ ran' = {"AdminAuth"}
                    /\ dbcalls' = <<>>
                    /\ UNCHANGED bookings
               ELSE /\ ran' = {"AdminAuth", "GetBookings"}
                    /\ resp' = Response(200, "", <<>>, FALSE, NoBooking,
                                        bookings = <<>>, bookings)
                    /\ dbcalls' = <<DbCall("Query", TRUE)>>
                                    \o ScanCalls(Len(bookings), Len(bookings), {})
                    /\ bookings' = <<>>
            /\ UNCHANGED <<toolchain, env, seq, created, vin, vb, verrs, vpc, inflight, frontend>>

GetBookings ==
    \E token \in AdminTokens :
        LET gate == AdminAuth(env, token)
        IN  /\ req' = [op |-> "list", body |-> NotJson, token |-> token]
            /\ IF gate = 500
               THEN /\ resp' = ErrorResponse(500, "Admin access is not configured")
                    /\ ran' = {"AdminAuth"}
                    /\ dbcalls' = <<>>
               ELSE IF gate = 401
               THEN /\ resp' = ErrorResponse(401, "Unauthorized")
                    /\ ran' = {"AdminAuth"}
                    /\ dbcalls' = <<>>
               ELSE /\ ran' = {"AdminAuth", "GetBookings"}
                    /\ \E queryOk \in BOOLEAN :
                       IF ~queryOk
                       THEN /\ resp' = ErrorResponse(500, "Failed to fetch bookings")
                            /\ dbcalls' = <<DbCall("Query", FALSE)>>
                       ELSE \E result \in SelectOrdered(bookings) :
                            \E k \in 0..Len(result) :
                            \E bad \in SUBSET (1..k) :
                                LET list == ScanRows(result, k, bad, 1)
                                IN  /\ resp' = Response(200, "", <<>>, FALSE, NoBooking,
                                                        list = <<>>, list)
                                    /\ dbcalls' = <<DbCall("Query", TRUE)>>
                                                    \o ScanCalls(Len(result), k, bad)
            /\ UNCHANGED <<toolchain, env, bookings, seq, created, vin, vb, verrs, vpc, inflight, frontend>>

(***************************************************************************)
(* The server: any sequence of requests, served one at a time.             *)
(***************************************************************************)
Init ==
    /\ toolchain \in GoReleases
    /\ env \in { [ADMIN_SECRET |-> a] : a \in AdminSecrets }
    /\ bookings = <<>>
    /\ seq = 0
    /\ req = NoRequest
    /\ resp = NoResponse
    /\ ran = {}
    /\ dbcalls = <<>>
    /\ created = {}
    /\ inflight = [p \in Requests |-> NoHandler]
    /\ FrontendIdle
    /\ ValidatorIdle

Next == CreateBooking \/ GetBookings

Spec == Init /\ [][Next]_vars

(***************************************************************************)
(* The server with restarts: main calls db.Init at every start of the      *)
(* process, against the database the earlier runs have written.            *)
(***************************************************************************)
\* db.Init with the table dropped and created anew.
dbInitRecreatingTable ==
    /\ req' = [op |-> "init", body |-> NotJson, token |-> Absent]
    /\ resp' = NoResponse
    /\ ran' = {"db.Init"}
    /\ dbcalls' = <<DbCall("Ping", TRUE), DbCall("Exec", TRUE)>>
    /\ bookings' = <<>>
    /\ seq' = 0
    /\ UNCHANGED <<toolchain, env, created, vin, vb, verrs, vpc, inflight, frontend>>

\* db.Init: sql.Open and Ping, then CREATE TABLE IF NOT EXISTS, which does
\* nothing to a table that exists; log.Fatal ends the process when the
\* connection or the statement fails.
dbInit ==
    /\ req' = [op |-> "init", body |-> NotJson, token |-> Absent]
    /\ resp' = NoResponse
    /\ ran' = {"db.Init"}
    /\ \E pingOk \in BOOLEAN :
          IF ~pingOk
          THEN dbcalls' = <<DbCall("Ping", FALSE)>>
          ELSE \E execOk \in BOOLEAN :
                  dbcalls' = <<DbCall("Ping", TRUE), DbCall("Exec", execOk)>>
    /\ UNCHANGED <<toolchain, env, bookings, seq, created, vin, vb, verrs, vpc, inflight, frontend>>

\* The process is serving: its last start did not end in log.Fatal.
Serving == ~(req.op = "init" /\ \E i \in 1..Len(dbcalls) : ~dbcalls[i].ok)

RestartNext == (Serving /\ Next) \/ dbInit

SpecRestart == Init /\ [][RestartNext]_vars

(***************************************************************************)
(* The Home page (Home.jsx): the effect pings GET /health when the page is *)
(* mounted and retries on a timer after each failure; its cleanup sets     *)
(* cancelled. A fetch ends with an ok response, with a response that is    *)
(* not ok, or with a rejection.                                            *)
(***************************************************************************)
HealthOutcomes == {"ok", "notok", "reject"}

\* ping(): one more GET /health is in flight; ping does not read cancelled.
ping(h) ==
    [h EXCEPT !.fetching = TRUE, !.requests = @ + 1,
              !.late = IF h.cancelled THEN @ + 1 ELSE @]

\* The effect of the mount: cancelled = false, attempt = 0, ping().
HomeMount ==
    /\ ~home.mounted
    /\ home' = ping([home EXCEPT !.mounted = TRUE, !.cancelled = FALSE, !.attempt = 0])
    /\ UNCHANGED <<backend, admin, sessionStorage, form>>

\* The handlers of the fetch without the reads of cancelled.
settlesIgnoringCancelled(h, outcome) ==
    LET done == [h EXCEPT !.fetching = FALSE, !.outcomes = Append(@, outcome)]
    IN  IF outcome = "ok" THEN [done EXCEPT !.backendStatus = "ready"]
        ELSE IF h.attempt + 1 < maxAttempts
        THEN [done EXCEPT !.attempt = @ + 1, !.timer = TRUE]
        ELSE [done EXCEPT !.attempt = @ + 1, !.backendStatus = "error"]

\* The handlers of the fetch giving up without a word: the last failure
\* sets no status.
settlesGivingUpSilently(h, outcome) ==
    LET done == [h EXCEPT !.fetching = FALSE, !.outcomes = Append(@, outcome)]
    IN  IF h.cancelled THEN done
        ELSE IF outcome = "ok" THEN [done EXCEPT !.backendStatus = "ready"]
        ELSE IF h.attempt + 1 < maxAttempts
        THEN [done EXCEPT !.attempt = @ + 1, !.timer = TRUE]
        ELSE [done EXCEPT !.attempt = @ + 1]

\* The handlers of the fetch giving up one failure late.
settlesOneMoreAttempt(h, outcome) ==
    LET done == [h EXCEPT !.fetching = FALSE, !.outcomes = Append(@, outcome)]
    IN  IF h.cancelled THEN done
        ELSE IF outcome = "ok" THEN [done EXCEPT !.backendStatus = "ready"]
        ELSE IF h.attempt + 1 <= maxAttempts
        THEN [done EXCEPT !.attempt = @ + 1, !.timer = TRUE]
        ELSE [done EXCEPT !.attempt = @ + 1, !.backendStatus = "error"]

\* The .then and .catch handlers of the fetch, for a fetch that ended with
\* outcome: both return at once when cancelled; an ok response sets
\* 'ready'; any other end counts an attempt and either schedules ping on a
\* timer or, at the last attempt, sets 'error'.
settles(h, outcome) ==
    LET done == [h EXCEPT !.fetching = FALSE, !.outcomes = Append(@, outcome)]
    IN  IF h.cancelled THEN done
        ELSE IF outcome = "ok" THEN [done EXCEPT !.backendStatus = "ready"]
        ELSE IF h.attempt + 1 < maxAttempts
        THEN [done EXCEPT !.attempt = @ + 1, !.timer = TRUE]
        ELSE [done EXCEPT !.attempt = @ + 1, !.backendStatus = "error"]

\* The fetch in flight settles.
HealthSettles ==
    /\ home.fetching
    /\ \E outcome \in HealthOutcomes : home' = settles(home, outcome)
    /\ UNCHANGED <<backend, admin, sessionStorage, form>>

\* setTimeout(ping, 5000) fires; the cleanup does not clear the timer.
RetryTimerFires ==
    /\ home.timer
    /\ home' = ping([home EXCEPT !.timer = FALSE])
    /\ UNCHANGED <<backend, admin, sessionStorage, form>>

\* The cleanup of the effect, at the unmount of the page.
HomeUnmount ==
    /\ home.mounted
    /\ ~home.cancelled
    /\ home' = [home EXCEPT !.cancelled = TRUE, !.timerAtUnmount = home.timer]
    /\ UNCHANGED <<backend, admin, sessionStorage, form>>

HomeInit ==
    /\ ServerIdle
    /\ ValidatorIdle

HomeNext == HomeMount \/ HealthSettles \/ RetryTimerFires \/ HomeUnmount

SpecHome == HomeInit /\ [][HomeNext]_vars

\* Every fetch settles in the end, and the browser fires a pending timer.
SpecHomeLive ==
    /\ HomeInit
    /\ [][HomeNext]_vars
    /\ WF_vars(HealthSettles)
    /\ WF_vars(RetryTimerFires)

(***************************************************************************)
(* The AdminDashboard page: fetchBookings, handleLogin, handleLogout and   *)
(* the effect that restores the session at the mount. A fetchBookings call *)
(* awaits the fetch; the page can be unmounted meanwhile, and the call     *)
(* then goes on for a page that is gone: its setState calls do nothing,    *)
(* its sessionStorage calls act as ever.                                   *)
(***************************************************************************)
\* The tokens typed in the token field (the field is required: not empty).
TypedTokens == { t.val : t \in { a \in AdminTokens : a.set /\ a.val # "" } }

\* A fetchBookings(adminToken) call awaiting its fetch: live while the page
\* that made it is mounted, old once a handleLogout ran after it was made.
Fetch(adminToken) == [token |-> adminToken, live |-> TRUE, old |-> FALSE]

\* The ends a GET /bookings with X-Admin-Token token can take: the fetch
\* rejects; or the server answers, 401 or 500 by AdminAuth, else 500 or 200
\* by GetBookings, and the body of a 200 fails to parse or is the listing.
FetchOutcomes(token) ==
    LET gate == AdminAuth(env, Present(token))
    IN  {"reject"} \cup (IF gate = 401 THEN {"401"}
                         ELSE IF gate = 500 THEN {"notok"}
                         ELSE {"notok", "parse", "ok"})

\* The bodies of a 200 answer of GetBookings, null read as [] (data || []).
Listings ==
    UNION { { ScanRows(result, k, bad, 1) : bad \in SUBSET (1..k) } :
              <<result, k>> \in { <<r, n>> \in SelectOrdered(bookings) \X (0..Len(bookings)) :
                                      n <= Len(r) } }

Remove(q, i) == SubSeq(q, 1, i - 1) \o SubSeq(q, i + 1, Len(q))

\* fetchBookings(adminToken) up to the await of the fetch, on the page a.
fetchBookings(a, adminToken) ==
    [a EXCEPT !.error = "", !.loading = TRUE,
              !.fetches = Append(@, Fetch(adminToken))]

\* The effect of the mount: a saved token is put in the field and sent.
AdminMount ==
    /\ ~admin.mounted
    /\ LET saved == sessionStorage.adminToken
           fresh == [admin EXCEPT !.mounted = TRUE,
                                  !.event = [NoEvent EXCEPT !.op = "mount"]]
       IN  IF saved.set /\ saved.val # ""
           THEN /\ Len(admin.fetches) < MaxFetches
                /\ admin' = fetchBookings([fresh EXCEPT !.token = saved.val,
                                                        !.event.token = saved.val],
                                          saved.val)
           ELSE admin' = fresh
    /\ UNCHANGED <<backend, home, sessionStorage, form>>

\* The page is left: its state is gone, its calls in flight go on.
AdminUnmount ==
    /\ admin.mounted
    /\ admin' = [AdminIdle EXCEPT
                    !.fetches = [i \in 1..Len(admin.fetches) |->
                                    [admin.fetches[i] EXCEPT !.live = FALSE]],
                    !.event = [NoEvent EXCEPT !.op = "unmount"],
                    !.accepted = admin.accepted,
                    !.loggedOut = admin.loggedOut]
    /\ UNCHANGED <<backend, home, sessionStorage, form>>

\* onChange of the token field of the login gate: setToken(e.target.value).
\* The field is there whenever the gate is shown, loading or not.
setToken ==
    /\ admin.mounted
    /\ ~admin.authenticated
    /\ \E t \in TypedTokens \cup {""} :
          /\ t # admin.token
          /\ admin' = [admin EXCEPT !.token = t,
                                    !.event = [NoEvent EXCEPT !.op = "type", !.token = t]]
    /\ UNCHANGED <<backend, home, sessionStorage, form>>

\* The form of the login gate is submitted with the token of the field:
\* the field is required, and the button is disabled while loading.
handleLogin ==
    /\ admin.mounted
    /\ ~admin.authenticated
    /\ ~admin.loading
    /\ admin.token # ""
    /\ Len(admin.fetches) < MaxFetches
    /\ admin' = fetchBookings([admin EXCEPT !.event = [NoEvent EXCEPT !.op = "login",
                                                                      !.token = admin.token]],
                              admin.token)
    /\ UNCHANGED <<backend, home, sessionStorage, form>>

\* fetchBookings resuming after the fetch: what it does to the state of
\* the page a, for the call f that ended with outcome (data is the body of
\* a success).  A call of a page that is gone changes no state.
resume(a, f, outcome, data) ==
    IF ~f.live THEN a
    ELSE IF outcome = "401"
    THEN [a EXCEPT !.authenticated = FALSE,
                   !.error = "Invalid token. Access denied.", !.loading = FALSE]
    ELSE IF outcome = "notok"
    THEN [a EXCEPT !.error = "Failed to fetch bookings.", !.loading = FALSE]
    ELSE IF outcome = "ok"
    THEN [a EXCEPT !.bookings = data, !.authenticated = TRUE, !.loading = FALSE]
    ELSE [a EXCEPT !.error = "Could not connect to server.", !.loading = FALSE]

\* fetchBookings storing the token whatever the answer.
storeAlways(st, f, outcome) == [st EXCEPT !.adminToken = Present(f.token)]

\* fetchBookings removing the stored token on every failure.
storeRemovingOnFailure(st, f, outcome) ==
    IF outcome = "ok" THEN [st EXCEPT !.adminToken = Present(f.token)]
    ELSE [st EXCEPT !.adminToken = Absent]

\* fetchBookings resuming after the fetch: what it does to sessionStorage.
store(st, f, outcome) ==
    IF outcome = "401" THEN [st EXCEPT !.adminToken = Absent]
    ELSE IF outcome = "ok" THEN [st EXCEPT !.adminToken = Present(f.token)]
    ELSE st

\* A fetchBookings call in flight gets the end of its fetch and runs on.
FetchSettles ==
    \E i \in 1..Len(admin.fetches) :
        LET f == admin.fetches[i]
        IN  \E outcome \in FetchOutcomes(f.token) :
            \E data \in (IF outcome = "ok" THEN Listings ELSE {<<>>}) :
                LET a == resume(admin, f, outcome, data)
                IN  /\ admin' =
                         [a EXCEPT !.fetches = Remove(@, i),
                                   !.event = [op |-> "settle", token |-> f.token,
                                              outcome |-> outcome, live |-> f.live],
                                   !.accepted = IF outcome = "ok" THEN @ \cup {f.token} ELSE @,
                                   !.loggedOut = IF outcome = "ok" /\ ~f.old THEN FALSE ELSE @]
                    /\ sessionStorage' = store(sessionStorage, f, outcome)
    /\ UNCHANGED <<backend, home, form>>

\* The Logout button of the dashboard.
handleLogout ==
    /\ admin.mounted
    /\ admin.authenticated
    /\ sessionStorage' = [sessionStorage EXCEPT !.adminToken = Absent]
    /\ admin' = [admin EXCEPT
                    !.authenticated = FALSE, !.bookings = <<>>, !.token = "",
                    !.fetches = [i \in 1..Len(admin.fetches) |->
                                    [admin.fetches[i] EXCEPT !.old = TRUE]],
                    !.event = [NoEvent EXCEPT !.op = "logout"],
                    !.loggedOut = TRUE]
    /\ UNCHANGED <<backend, home, form>>

\* What the page renders: the login gate unless authenticated.
AdminView == IF admin.authenticated THEN "dashboard" ELSE "gate"

\* The backend is up, with or without a secret, on a table with no row or
\* with the row of an earlier POST /book of the README request.
AdminInit ==
    /\ toolchain \in GoReleases
    /\ env \in { [ADMIN_SECRET |-> a] : a \in AdminSecrets }
    /\ \/ bookings = <<>> /\ seq = 0 /\ created = {}
       \/ LET row == [validateBooking(ShouldBindJSON(JaneBody).b).b EXCEPT !.id = 1]
          IN  bookings = <<row>> /\ seq = 1 /\ created = {row}
    /\ req = NoRequest
    /\ resp = NoResponse
    /\ ran = {}
    /\ dbcalls = <<>>
    /\ inflight = [p \in Requests |-> NoHandler]
    /\ FrontendIdle
    /\ ValidatorIdle

AdminNext ==
    AdminMount \/ AdminUnmount \/ setToken \/ handleLogin \/ FetchSettles \/ handleLogout

SpecAdmin == AdminInit /\ [][AdminNext]_vars

(***************************************************************************)
(* The BookingForm page (frontend): handleSubmit posts the form to /book   *)
(* and either navigates to /confirmation or shows errors.                  *)
(***************************************************************************)
\* JSON.stringify({...form, duration: Number(form.duration), guests:
\* Number(form.guests)}): the seven fields, five strings and two numbers.
FormBody(name, email, phone, date, time, duration, guests) ==
    JsonBody([name |-> JStr(name), email |-> JStr(email), phone |-> JStr(phone),
              date |-> JStr(date), time |-> JStr(time),
              duration |-> JNum(duration), guests |-> JNum(guests)])

\* The fillings of the form that are submitted: the request of the README,
\* a second acceptable one, and one with a blank name and too many guests.
FormBodies ==
    { FormBody(JaneName, JaneEmail, JanePhone, DateB, TimeB, 3, 25),
      FormBody(<<"a">>, <<"b", "@", "a">>, JanePhone, DateA, TimeA, MaxDuration, MinGuests),
      FormBody(<<" ">>, JaneEmail, JanePhone, DateA, TimeA, 3, MaxGuests + 1) }

\* POST /book as the server answers it on a table: every outcome of
\* CreateBooking, with the response, the table and the database calls.
Book(body, rows, sq) ==
    LET bind == ShouldBindJSON(body)
        v == validateBooking(bind.b)
        id == NextRowId(rows, sq)
        stored == [v.b EXCEPT !.id = id]
        outcome(r, table, s, calls, made) ==
            [resp |-> r, bookings |-> table, seq |-> s, dbcalls |-> calls,
             created |-> made]
    IN  IF ~bind.ok
        THEN { outcome(ErrorResponse(400, "Invalid request body"), rows, sq, <<>>, {}) }
        ELSE IF Len(v.errs) > 0
        THEN { outcome(Response(400, "", v.errs, FALSE, NoBooking, FALSE, <<>>),
                       rows, sq, <<>>, {}) }
        ELSE { outcome(ErrorResponse(500, "Failed to save booking"), rows, sq,
                       <<DbCall("Exec", FALSE)>>, {}) }
             \cup
             (IF Len(rows) < MaxRows
              THEN { outcome(ErrorResponse(500, "Failed to retrieve booking ID"),
                             Append(rows, stored), id,
                             <<DbCall("Exec", TRUE), DbCall("LastInsertId", FALSE)>>, {}),
                     outcome(Response(201, "", <<>>, TRUE, stored, FALSE, <<>>),
                             Append(rows, stored), id,
                             <<DbCall("Exec", TRUE), DbCall("LastInsertId", TRUE)>>,
                             {stored}) }
              ELSE {})

ConnectError == "Could not connect to server. Is the backend running?"

\* A handleSubmit call at its await: the body it posted, whether the page
\* that made it is still shown, and once the server has handled the
\* request the response that is on its way back.
Submission(body) ==
    [body |-> body, live |-> TRUE, served |-> FALSE, resp |-> NoResponse]

Orphaned(calls) == [i \in 1..Len(calls) |-> [calls[i] EXCEPT !.live = FALSE]]

\* The page is shown: a new instance with the initial state.
FormMount ==
    /\ ~form.mounted
    /\ form' = [form EXCEPT !.mounted = TRUE, !.errors = <<>>, !.submitting = FALSE,
                            !.location = Location("/book", FALSE, NoBooking),
                            !.event = [NoSubmission EXCEPT !.op = "mount"]]
    /\ UNCHANGED <<backend, home, admin, sessionStorage>>

\* The visitor leaves the page: the instance is gone, its calls go on.
leave(f, location) ==
    [f EXCEPT !.mounted = FALSE, !.errors = <<>>, !.submitting = FALSE,
              !.calls = Orphaned(@), !.location = location]

FormUnmount ==
    /\ form.mounted
    /\ form' = [leave(form, Location("/", FALSE, NoBooking))
                   EXCEPT !.event = [NoSubmission EXCEPT !.op = "unmount"]]
    /\ UNCHANGED <<backend, home, admin, sessionStorage>>

\* handleSubmit up to its await: the button is disabled while submitting.
handleSubmit ==
    /\ form.mounted
    /\ ~form.submitting
    /\ form.started < MaxSubmissions
    /\ \E body \in FormBodies :
          form' = [form EXCEPT !.errors = <<>>, !.submitting = TRUE,
                               !.started = @ + 1,
                               !.calls = Append(@, Submission(body)),
                               !.event = [NoSubmission EXCEPT !.op = "submit", !.live = TRUE]]
    /\ UNCHANGED <<backend, home, admin, sessionStorage>>

\* data.errors || [data.error || 'Something went wrong']
shown(r) ==
    IF r.errors # <<>> THEN r.errors
    ELSE <<IF r.error # "" THEN r.error ELSE "Something went wrong">>

\* handleSubmit navigating whatever the status of the response.
afterAwaitNoOkCheck(f, call, delivered, r) ==
    IF ~delivered
    THEN IF call.live THEN [f EXCEPT !.errors = <<ConnectError>>, !.submitting = FALSE]
         ELSE f
    ELSE leave(f, Location("/confirmation", r.hasBooking, r.booking))

\* handleSubmit from its await on: the catch block when fetch or res.json()
\* threw, the errors when the response is not ok, navigate otherwise; the
\* finally block in every case.  The setters of a page that is gone do
\* nothing; navigate replaces whatever page is shown.
afterAwait(f, call, delivered, r) ==
    IF ~delivered
    THEN IF call.live THEN [f EXCEPT !.errors = <<ConnectError>>, !.submitting = FALSE]
         ELSE f
    ELSE IF ~(r.status \in 200..299)
    THEN IF call.live THEN [f EXCEPT !.errors = shown(r), !.submitting = FALSE] ELSE f
    ELSE leave(f, Location("/confirmation", r.hasBooking, r.booking))

\* The server handles the POST /book of a call in flight: CreateBooking
\* runs on the table as it is now, and the response sets off.  The page
\* is still at its await.
ServeSubmission ==
    /\ \E i \in 1..Len(form.calls) :
          /\ ~form.calls[i].served
          /\ \E o \in Book(form.calls[i].body, bookings, seq) :
                /\ req' = [op |-> "create", body |-> form.calls[i].body, token |-> Absent]
                /\ resp' = o.resp
                /\ ran' = {"CreateBooking"}
                /\ dbcalls' = o.dbcalls
                /\ bookings' = o.bookings
                /\ seq' = o.seq
                /\ created' = created \cup o.created
                /\ form' = [form EXCEPT !.calls[i].served = TRUE,
                                        !.calls[i].resp = o.resp]
    /\ UNCHANGED <<toolchain, env, vin, vb, verrs, vpc, inflight, home, admin, sessionStorage>>

\* The await of a call ends and handleSubmit runs on: with the response of
\* the server when it arrived and parsed, with an exception otherwise (the
\* request or the response was lost).  The calls end in any order.
SubmissionSettles ==
    /\ \E i \in 1..Len(form.calls) :
          LET call == form.calls[i]
              rest == [form EXCEPT !.calls = Remove(@, i)]
          IN  \E delivered \in (IF call.served THEN BOOLEAN ELSE {FALSE}) :
                 form' = [afterAwait(rest, call, delivered, call.resp)
                             EXCEPT !.event = [op |-> "settle", live |-> call.live,
                                               delivered |-> delivered,
                                               response |-> call.resp]]
    /\ UNCHANGED <<backend, home, admin, sessionStorage>>

FormInit ==
    /\ ServerIdle
    /\ ValidatorIdle

FormNext ==
    FormMount \/ FormUnmount \/ handleSubmit \/ ServeSubmission \/ SubmissionSettles

SpecForm == FormInit /\ [][FormNext]_vars

(***************************************************************************)
(* The validator on its own: one call of validateBooking on a candidate.   *)
(***************************************************************************)
\* The struct handed to validateBooking: any combination of the candidate
\* field values (the id is 0 before the insert).
ValidateInit ==
    /\ \E n \in CandidateNames, e \in CandidateEmails, p \in CandidatePhones,
          d \in CandidateDates, t \in CandidateTimes,
          du \in CandidateDurations, g \in CandidateGuests :
            vin = Booking(0, n, e, p, d, t, du, g)
    /\ vb = vin
    /\ verrs = <<>>
    /\ vpc = "call"
    /\ ServerIdle

Validate ==
    /\ vpc = "call"
    /\ LET r == validateBooking(vb)
       IN  /\ vb' = r.b
           /\ verrs' = r.errs
    /\ vpc' = "ret"
    /\ UNCHANGED <<toolchain, env, bookings, seq, req, resp, ran, dbcalls, created, vin, inflight, frontend>>

ValidateNext == Validate

SpecValidate == ValidateInit /\ [][ValidateNext]_vars

(***************************************************************************)
(* The validator as a normalizer: one call of validateBooking on a struct  *)
(* that may carry an id and blanks around its date and its time.           *)
(***************************************************************************)
PaddedDates == CandidateDates \cup { <<" ">> \o DateA \o <<" ">> }
PaddedTimes == CandidateTimes \cup { <<"\t">>, TimeB \o <<"\n">> }
CandidateIds == { 0, 7 }

NormalizeInit ==
    /\ \E i \in CandidateIds, n \in CandidateNames, e \in CandidateEmails,
          p \in CandidatePhones, d \in PaddedDates, t \in PaddedTimes,
          du \in { MinDuration - 1, MinDuration }, g \in { MaxGuests, MaxGuests + 1 } :
            vin = Booking(i, n, e, p, d, t, du, g)
    /\ vb = vin
    /\ verrs = <<>>
    /\ vpc = "call"
    /\ ServerIdle

SpecNormalize == NormalizeInit /\ [][ValidateNext]_vars

(***************************************************************************)
(* The numeric fields: a request whose duration and guests members are     *)
(* each a JSON number or left out is bound (ShouldBindJSON) and then       *)
(* validated (validateBooking).                                            *)
(***************************************************************************)
\* Integers far from the ranges, up to the ends of a 32-bit int.
FarValues == { -2147483647, -1000, 1000, 2147483647 }

DurationValues == ((MinDuration - RangeMargin)..(MaxDuration + RangeMargin)) \cup FarValues
GuestsValues == ((MinGuests - RangeMargin)..(MaxGuests + RangeMargin)) \cup FarValues

\* A member of the JSON object: a number of values, or no member.
NumberMembers(values) == { Absent } \cup { Present(JNum(n)) : n \in values }

\* The README request with the given name and with duration and guests as
\* given, each left out of the object when absent.
RangeBody(name, du, g) ==
    LET base == [name |-> JStr(name), email |-> JStr(JaneEmail),
                 phone |-> JStr(JanePhone), date |-> JStr(DateB), time |-> JStr(TimeB)]
        keys == DOMAIN base \cup (IF du.set THEN {"duration"} ELSE {})
                            \cup (IF g.set THEN {"guests"} ELSE {})
    IN  JsonBody([k \in keys |-> IF k = "duration" THEN du.val
                                 ELSE IF k = "guests" THEN g.val
                                 ELSE base[k]])

RangesInit ==
    /\ \E name \in { JaneName, <<" ">> },
          du \in NumberMembers(DurationValues), g \in NumberMembers(GuestsValues) :
            req = [op |-> "create", body |-> RangeBody(name, du, g), token |-> Absent]
    /\ toolchain \in GoReleases
    /\ env = [ADMIN_SECRET |-> Absent]
    /\ bookings = <<>>
    /\ seq = 0
    /\ resp = NoResponse
    /\ ran = {}
    /\ dbcalls = <<>>
    /\ created = {}
    /\ inflight = [p \in Requests |-> NoHandler]
    /\ FrontendIdle
    /\ vin = NoBooking
    /\ vb = NoBooking
    /\ verrs = <<>>
    /\ vpc = "bind"

\* c.ShouldBindJSON(&booking) on the body of the request.
Bind ==
    /\ vpc = "bind"
    /\ ShouldBindJSON(req.body).ok
    /\ vin' = ShouldBindJSON(req.body).b
    /\ vb' = vin'
    /\ vpc' = "call"
    /\ UNCHANGED <<toolchain, env, bookings, seq, req, resp, ran, dbcalls, created, verrs, inflight, frontend>>

RangesNext == Bind \/ Validate

SpecRanges == RangesInit /\ [][RangesNext]_vars

(***************************************************************************)
(* POST /book served concurrently: gin runs CreateBooking in a goroutine   *)
(* per request. The handler has local variables only and shares the pool   *)
(* db.DB; the table runs each INSERT as one atomic statement. A request is *)
(* at "exec" before db.DB.Exec, at "lastid" before result.LastInsertId(),  *)
(* and "done" once its response is written.                                *)
(***************************************************************************)
\* The identifier read from the connection (the last row inserted by any
\* request) instead of the sql.Result of the request's own Exec.
LastInsertRowidOfTable(result, rows) == MaxId(rows)

\* result.LastInsertId(): the identifier held by the sql.Result that the
\* request's own Exec returned, whatever rows the table has got since.
LastInsertId(result, rows) == result

\* ShouldBindJSON and validateBooking of request p, answered 400 on failure.
BindAndValidate(p) ==
    /\ inflight[p].pc = "idle"
    /\ \E body \in Bodies :
          LET bind == ShouldBindJSON(body)
              v == validateBooking(bind.b)
          IN  inflight' = [inflight EXCEPT ![p] =
                  IF ~bind.ok
                  THEN [@ EXCEPT !.pc = "done", !.body = body,
                                 !.resp = ErrorResponse(400, "Invalid request body")]
                  ELSE IF Len(v.errs) > 0
                  THEN [@ EXCEPT !.pc = "done", !.body = body, !.booking = v.b,
                                 !.resp = Response(400, "", v.errs, FALSE, NoBooking,
                                                   FALSE, <<>>)]
                  ELSE [@ EXCEPT !.pc = "exec", !.body = body, !.booking = v.b]]
    /\ UNCHANGED <<toolchain, env, bookings, seq, req, resp, ran, dbcalls, created,
                   vin, vb, verrs, vpc, frontend>>

\* db.DB.Exec of the INSERT of request p.
ExecInsert(p) ==
    /\ inflight[p].pc = "exec"
    /\ \E execOk \in BOOLEAN :
          IF ~execOk
          THEN /\ inflight' = [inflight EXCEPT ![p] =
                     [@ EXCEPT !.pc = "done",
                               !.resp = ErrorResponse(500, "Failed to save booking"),
                               !.calls = <<DbCall("Exec", FALSE)>>]]
               /\ UNCHANGED <<bookings, seq>>
          ELSE LET id == NextRowId(bookings, seq)
               IN  /\ bookings' = Append(bookings, [inflight[p].booking EXCEPT !.id = id])
                   /\ seq' = id
                   /\ inflight' = [inflight EXCEPT ![p] =
                         [@ EXCEPT !.pc = "lastid", !.result = id,
                                   !.calls = <<DbCall("Exec", TRUE)>>]]
    /\ UNCHANGED <<toolchain, env, req, resp, ran, dbcalls, created, vin, vb, verrs, vpc, frontend>>

\* result.LastInsertId() of request p, and the response that follows it.
RetrieveId(p) ==
    /\ inflight[p].pc = "lastid"
    /\ \E idOk \in BOOLEAN :
          IF ~idOk
          THEN /\ inflight' = [inflight EXCEPT ![p] =
                     [@ EXCEPT !.pc = "done",
                               !.resp = ErrorResponse(500, "Failed to retrieve booking ID"),
                               !.calls = Append(@, DbCall("LastInsertId", FALSE))]]
               /\ UNCHANGED created
          ELSE LET answered == [inflight[p].booking EXCEPT
                                   !.id = LastInsertId(inflight[p].result, bookings)]
               IN  /\ inflight' = [inflight EXCEPT ![p] =
                         [@ EXCEPT !.pc = "done", !.booking = answered,
                                   !.resp = Response(201, "", <<>>, TRUE, answered,
                                                     FALSE, <<>>),
                                   !.calls = Append(@, DbCall("LastInsertId", TRUE))]]
                   /\ created' = created \cup {answered}
    /\ UNCHANGED <<toolchain, env, bookings, seq, req, resp, ran, dbcalls, vin, vb, verrs, vpc, frontend>>

\* The next step of the handler of request p.
HandlerStep(p) == BindAndValidate(p) \/ ExecInsert(p) \/ RetrieveId(p)

ConcurrentNext == \E p \in Requests : HandlerStep(p)

SpecConcurrent == Init /\ [][ConcurrentNext]_vars

(***************************************************************************)
(* The rules of the validator as the specification words them, on a        *)
(* record as submitted.                                                    *)
(***************************************************************************)
NameRule(r) == TrimSpace(r.name) # <<>>
EmailRule(r) == ParseAddressOk(TrimSpace(r.email))
PhoneRule(r) == Len(TrimSpace(r.phone)) >= 7
DateRule(r) == r.date # <<>>
TimeRule(r) == r.time # <<>>
DurationRule(r) == 1 <= r.duration /\ r.duration <= 8
GuestsRule(r) == 1 <= r.guests /\ r.guests <= 100

AllRulesHold(r) ==
    /\ NameRule(r)
    /\ EmailRule(r)
    /\ PhoneRule(r)
    /\ DateRule(r)
    /\ TimeRule(r)
    /\ DurationRule(r)
    /\ GuestsRule(r)

\* How often msg occurs in the list errs.
Count(errs, msg) == Cardinality({i \in 1..Len(errs) : errs[i] = msg})

\* The set of elements of a sequence.
Range(q) == {q[i] : i \in 1..Len(q)}

(***************************************************************************)
(* Properties of the validator (specification SpecValidate).               *)
(***************************************************************************)

\* C1: validateBooking returns an empty violation list if and only if the
\* record satisfies all seven rules.
C1_EmptyIffAllRules ==
    vpc = "ret" => ((verrs = <<>>) <=> AllRulesHold(vin))

\* A record with blanks around name and phone was validated and accepted.
C1_Witness ==
    /\ vpc = "ret"
    /\ verrs = <<>>
    /\ vin.name # vb.name
    /\ vin.phone # vb.phone

\* C2: validateBooking does not short-circuit: the list holds the message of
\* each violated rule exactly once, no message of a satisfied rule, and
\* nothing else; whether a message appears depends on its own field only.
C2_EachViolationOnce ==
    vpc = "ret" =>
        /\ Count(verrs, MsgName) = (IF NameRule(vin) THEN 0 ELSE 1)
        /\ Count(verrs, MsgEmail) = (IF EmailRule(vin) THEN 0 ELSE 1)
        /\ Count(verrs, MsgPhone) = (IF PhoneRule(vin) THEN 0 ELSE 1)
        /\ Count(verrs, MsgDate) = (IF DateRule(vin) THEN 0 ELSE 1)
        /\ Count(verrs, MsgTime) = (IF TimeRule(vin) THEN 0 ELSE 1)
        /\ Count(verrs, MsgDuration) = (IF DurationRule(vin) THEN 0 ELSE 1)
        /\ Count(verrs, MsgGuests) = (IF GuestsRule(vin) THEN 0 ELSE 1)
        /\ Range(verrs) \subseteq
             {MsgName, MsgEmail, MsgPhone, MsgDate, MsgTime, MsgDuration, MsgGuests}

\* A record violating all seven rules got all seven messages.
C2_Witness ==
    /\ vpc = "ret"
    /\ Len(verrs) = 7
    /\ ~NameRule(vin) /\ ~EmailRule(vin) /\ ~PhoneRule(vin) /\ ~DateRule(vin)
    /\ ~TimeRule(vin) /\ ~DurationRule(vin) /\ ~GuestsRule(vin)

\* The messages in the order of the rules, and the rules (by their place in
\* that order) that record r violates.
RuleOrder == <<MsgName, MsgEmail, MsgPhone, MsgDate, MsgTime, MsgDuration, MsgGuests>>
ViolatedRules(r) ==
    {k \in 1..7 : \/ k = 1 /\ ~NameRule(r)
                  \/ k = 2 /\ ~EmailRule(r)
                  \/ k = 3 /\ ~PhoneRule(r)
                  \/ k = 4 /\ ~DateRule(r)
                  \/ k = 5 /\ ~TimeRule(r)
                  \/ k = 6 /\ ~DurationRule(r)
                  \/ k = 7 /\ ~GuestsRule(r)}

\* The places in RuleOrder of the messages of errs.
PlacesOf(errs, i) == {k \in 1..7 : RuleOrder[k] = errs[i]}

\* C20: the list validateBooking returns is the subsequence of the messages
\* in rule order (name, email, phone, date, time, duration, guests) made of
\* the messages of the violated rules: its messages are those of the
\* violated rules and they follow each other in rule order.
C20_RuleOrder ==
    vpc = "ret" =>
        /\ \A i \in 1..Len(verrs) : PlacesOf(verrs, i) # {}
        /\ {k \in 1..7 : \E i \in 1..Len(verrs) : k \in PlacesOf(verrs, i)}
              = ViolatedRules(vin)
        /\ \A i, j \in 1..Len(verrs) :
              i < j => \A k \in PlacesOf(verrs, i), l \in PlacesOf(verrs, j) : k < l

\* A record violating the email, date and guests rules only got their
\* three messages, in that order.
C20_Witness ==
    /\ vpc = "ret"
    /\ ViolatedRules(vin) = {2, 4, 7}
    /\ verrs = <<MsgEmail, MsgDate, MsgGuests>>

(***************************************************************************)
(* Properties of the server (specification Spec).                          *)
(***************************************************************************)

\* The body cannot be parsed into a booking: it is not JSON, or a member
\* that names a field has a value of another type than the field.
CannotBeParsed(body) ==
    \/ ~body.syntax
    \/ \E k \in DOMAIN body.obj :
          \/ k \in StringFields /\ body.obj[k].t # "string"
          \/ k \in IntFields /\ body.obj[k].t # "number"

\* The member k of a JSON object as sent: a string, "" when absent.
SentString(body, k) == IF k \in DOMAIN body.obj THEN body.obj[k].s ELSE <<>>

\* The member k of a JSON object as sent: a number, 0 when absent.
SentNumber(body, k) == IF k \in DOMAIN body.obj THEN body.obj[k].n ELSE 0

\* The record of response r echoes the fields sent in body, name, email and
\* phone trimmed and the others unchanged.
EchoesTrimmed(r, body) ==
    /\ r.name = TrimSpace(SentString(body, "name"))
    /\ r.email = TrimSpace(SentString(body, "email"))
    /\ r.phone = TrimSpace(SentString(body, "phone"))
    /\ r.date = SentString(body, "date")
    /\ r.time = SentString(body, "time")
    /\ r.duration = SentNumber(body, "duration")
    /\ r.guests = SentNumber(body, "guests")

\* The insert of the last request succeeded: Exec and LastInsertId both did.
InsertSucceeded == dbcalls = <<DbCall("Exec", TRUE), DbCall("LastInsertId", TRUE)>>

\* A storage call of the last request failed.
StorageFailed == \E i \in 1..Len(dbcalls) : ~dbcalls[i].ok

\* C3: a POST /book is answered 400 "Invalid request body" when the body
\* cannot be parsed, 400 with the validator's list when that list is not
\* empty, and 201 with the stored record (store-assigned id, fields echoed
\* trimmed) when the list is empty and the insert succeeds; each answer is
\* given in that case only, and any other answer is a storage failure.
C3_CreateOutcomes ==
    req.op = "create" =>
        LET v == validateBooking(ShouldBindJSON(req.body).b)
            invalidBody == resp = ErrorResponse(400, "Invalid request body")
            violations == /\ resp.status = 400
                          /\ resp.error = ""
                          /\ resp.errors # <<>>
                          /\ resp.errors = v.errs
                          /\ ~resp.hasBooking
            created201 == /\ resp.status = 201
                          /\ resp.hasBooking
                          /\ resp.errors = <<>>
                          /\ EchoesTrimmed(resp.booking, req.body)
                          /\ bookings # <<>>
                          /\ resp.booking = bookings[Len(bookings)]
                          /\ resp.booking.id >= 1
        IN  /\ invalidBody <=> CannotBeParsed(req.body)
            /\ violations <=> (~CannotBeParsed(req.body) /\ v.errs # <<>>)
            /\ created201 <=>
                 (~CannotBeParsed(req.body) /\ v.errs = <<>> /\ InsertSucceeded)
            /\ invalidBody \/ violations \/ created201
                 \/ (resp.status = 500 /\ StorageFailed)

\* A body with blanks around name, email and phone was answered 201.
C3_Witness ==
    /\ req.op = "create"
    /\ resp.status = 201
    /\ resp.booking.name # SentString(req.body, "name")
    /\ resp.booking.email # SentString(req.body, "email")

\* C4: every row of the table satisfies the seven rules and has name, email
\* and phone in trimmed form.
C4_StoredRecordsValid ==
    \A i \in 1..Len(bookings) :
        /\ AllRulesHold(bookings[i])
        /\ bookings[i].name = TrimSpace(bookings[i].name)
        /\ bookings[i].email = TrimSpace(bookings[i].email)
        /\ bookings[i].phone = TrimSpace(bookings[i].phone)

\* The table holds a row that was submitted with blanks around its name,
\* and a rejected request was served after the inserts.
C4_Witness ==
    /\ \E i \in 1..Len(bookings) : bookings[i].name = <<"b">>
    /\ req.op = "create"
    /\ resp.status = 400
    /\ resp.errors # <<>>

\* C5: a POST /book answered 400 leaves the table as it was: no row is
\* inserted and no identifier is consumed.
C5_RejectedLeavesStore ==
    [][ (req'.op = "create" /\ resp'.status = 400) =>
            /\ bookings' = bookings
            /\ seq' = seq
            /\ NextRowId(bookings', seq') = NextRowId(bookings, seq) ]_vars

\* A request was rejected with 400 while the table held a row.
C5_Witness ==
    /\ req.op = "create"
    /\ resp.status = 400
    /\ bookings # <<>>
    /\ dbcalls = <<>>

\* The configured admin secret, "" when ADMIN_SECRET is unset or empty.
ConfiguredSecret == IF env.ADMIN_SECRET.set THEN env.ADMIN_SECRET.val ELSE ""

\* The last request presented a token equal to a non-empty configured secret.
Authorized ==
    /\ ConfiguredSecret # ""
    /\ req.token.set
    /\ req.token.val = ConfiguredSecret

\* C6: GET /bookings is answered 500 when no secret is configured, whatever
\* the token; 401 when a secret is configured and the token is absent, empty
\* or different; and 200 only when the token equals the configured secret.
C6_AdminGateAnswers ==
    req.op = "list" =>
        /\ ConfiguredSecret = "" => resp.status = 500
        /\ (ConfiguredSecret # "" /\ ~req.token.set) => resp.status = 401
        /\ (ConfiguredSecret # "" /\ req.token.set /\ req.token.val = "")
              => resp.status = 401
        /\ (ConfiguredSecret # "" /\ req.token.set /\ req.token.val # ConfiguredSecret)
              => resp.status = 401
        /\ resp.status = 200 => Authorized
        /\ Authorized => (resp.status = 200 \/ (resp.status = 500 /\ StorageFailed))

\* An authorized request was answered 200 with a list of bookings.
C6_Witness ==
    /\ req.op = "list"
    /\ resp.status = 200
    /\ resp.list # <<>>

\* C7: the GetBookings handler runs, the table is read and bookings are put
\* in a response to GET /bookings only for an authorized request; a rejected
\* request ran AdminAuth alone, made no database call and got no booking.
C7_NoDisclosureWithoutToken ==
    req.op = "list" =>
        /\ ("GetBookings" \in ran \/ dbcalls # <<>> \/ resp.list # <<>> \/ resp.hasBooking)
              => Authorized
        /\ ~Authorized =>
              /\ ran = {"AdminAuth"}
              /\ dbcalls = <<>>
              /\ resp.list = <<>>
              /\ ~resp.hasBooking
              /\ resp.status \in {401, 500}

\* A request without a valid token was rejected while the table held rows.
C7_Witness ==
    /\ req.op = "list"
    /\ ~Authorized
    /\ bookings # <<>>
    /\ resp.status = 401

\* C8: every GET /bookings answered 200 lists each booking that a POST /book
\* returned with 201 before, with the identifier and the fields of that
\* response.
C8_RoundTrip ==
    (req.op = "list" /\ resp.status = 200) =>
        \A b \in created : \E k \in 1..Len(resp.list) : resp.list[k] = b

\* The list is in ascending order of date, then of time.
SortedByDateTime(list) ==
    \A i, j \in 1..Len(list) :
        i < j =>
            \/ StrLess(list[i].date, list[j].date)
            \/ /\ list[i].date = list[j].date
               /\ (StrLess(list[i].time, list[j].time) \/ list[i].time = list[j].time)

\* The list holds every row of the table once and nothing else.
PermutationOfStore(list) ==
    /\ Len(list) = Len(bookings)
    /\ \A r \in Range(bookings) \cup Range(list) :
          Cardinality({i \in 1..Len(list) : list[i] = r})
              = Cardinality({i \in 1..Len(bookings) : bookings[i] = r})

\* C9: the list of a GET /bookings answered 200 is sorted by date, then by
\* time, and is a permutation of all stored records.
C9_SortedPermutation ==
    (req.op = "list" /\ resp.status = 200) =>
        /\ SortedByDateTime(resp.list)
        /\ PermutationOfStore(resp.list)

\* The identifiers of the rows increase strictly in insertion order.
IdsIncreasing ==
    \A i, j \in 1..Len(bookings) : i < j => bookings[i].id < bookings[j].id

\* A listing shows stored rows only, so each with its stored identifier.
ListedAsStored ==
    (req.op = "list" /\ resp.status = 200) => Range(resp.list) \subseteq Range(bookings)

\* C10: stored identifiers are pairwise distinct and strictly increasing in
\* insertion order, each insert takes the identifier after the largest one,
\* no step changes the identifier of a stored row, and a listing shows the
\* rows with their stored identifiers.
C10_IdentifiersStable ==
    /\ [](IdsIncreasing /\ ListedAsStored)
    /\ [][ /\ Len(bookings') >= Len(bookings)
           /\ \A i \in 1..Len(bookings) : bookings'[i] = bookings[i]
           /\ Len(bookings') > Len(bookings) =>
                 /\ Len(bookings') = Len(bookings) + 1
                 /\ bookings'[Len(bookings')].id = MaxId(bookings) + 1 ]_vars

\* Two rows are stored and a listing shows them in another order than that
\* of their identifiers.
C10_Witness ==
    /\ Len(bookings) = 2
    /\ req.op = "list"
    /\ resp.status = 200
    /\ Len(resp.list) = 2
    /\ resp.list[1].id > resp.list[2].id

\* C11: the table is append-only: no step removes or changes a stored row
\* (each row stays at its place with all its fields), a step adds rows at
\* the end only, and a GET /bookings leaves the table as it was.
C11_AppendOnly ==
    [][ /\ Len(bookings') >= Len(bookings)
        /\ SubSeq(bookings', 1, Len(bookings)) = bookings
        /\ req'.op = "list" => bookings' = bookings ]_vars

\* Two rows are stored and an authorized listing was served after them.
C11_Witness ==
    /\ Len(bookings) >= 2
    /\ req.op = "list"
    /\ resp.status = 200
    /\ resp.list = bookings

\* C12: an authorized GET /bookings on an empty table, served without a
\* storage failure, is answered 200 with an empty list: a list value, not
\* an error and not null.
C12_EmptyListNotNull ==
    (req.op = "list" /\ Authorized /\ bookings = <<>> /\ ~StorageFailed) =>
        /\ resp.status = 200
        /\ resp.error = ""
        /\ resp.list = <<>>
        /\ ~resp.null

\* C13: a GET /bookings whose read fails, at the query, at the scan of a row
\* or during the iteration of the rows, is answered 500, and a listing
\* answered 200 holds every stored row.
C13_ReadFailureIs500 ==
    (req.op = "list" /\ "GetBookings" \in ran) =>
        /\ StorageFailed => resp.status = 500
        /\ resp.status = 200 => Range(bookings) \subseteq Range(resp.list)

\* C14: a POST /book changes the table if and only if it is answered 201,
\* and a POST /book answered 500 leaves the table as it was.
C14_NoPartialFailure ==
    [][ req'.op = "create" =>
            /\ (bookings' # bookings) <=> (resp'.status = 201)
            /\ resp'.status = 500 => bookings' = bookings ]_vars

\* The INSERT attempts (calls of Exec) the last request made.
InsertAttempts == Cardinality({i \in 1..Len(dbcalls) : dbcalls[i].call = "Exec"})

\* The fixed messages CreateBooking answers a storage failure with.
GenericStorageErrors == {"Failed to save booking", "Failed to retrieve booking ID"}

\* C15: a POST /book makes at most one insert attempt; when a storage call
\* fails it is answered 500 with a fixed message and nothing else, and after
\* a failed insert no further database call is made; one request adds at
\* most one row.
C15_NoRetry ==
    /\ [](req.op = "create" =>
            /\ InsertAttempts <= 1
            /\ StorageFailed =>
                  /\ resp.status = 500
                  /\ resp.error \in GenericStorageErrors
                  /\ resp.errors = <<>>
                  /\ ~resp.hasBooking
            /\ (dbcalls # <<>> /\ ~dbcalls[1].ok) => Len(dbcalls) = 1)
    /\ [][ Len(bookings') <= Len(bookings) + 1 ]_vars

\* A valid request met a failing insert after a row had been stored: it got
\* the generic 500 and the one attempt is the only database call.
C15_Witness ==
    /\ req.op = "create"
    /\ resp = ErrorResponse(500, "Failed to save booking")
    /\ dbcalls = <<DbCall("Exec", FALSE)>>
    /\ Len(bookings) = 1

\* The record a body asks to book, as sent (absent members are zero values).
SentRecord(body) ==
    Booking(0, SentString(body, "name"), SentString(body, "email"),
            SentString(body, "phone"), SentString(body, "date"),
            SentString(body, "time"), SentNumber(body, "duration"),
            SentNumber(body, "guests"))

\* The body is a valid submission: it parses and satisfies the seven rules.
ValidSubmission(body) == ~CannotBeParsed(body) /\ AllRulesHold(SentRecord(body))

\* Rows a and b have the same fields, the identifier aside.
SameFields(a, b) == [a EXCEPT !.id = 0] = [b EXCEPT !.id = 0]

\* C16: whether a POST /book is accepted depends on the body alone, never on
\* the rows already stored: while the storage calls succeed a valid
\* submission is accepted with 201 and adds a row, also when a row with the
\* same fields (same date and time included) is stored already, and rows
\* with the same fields have different identifiers.
C16_AcceptanceIgnoresStore ==
    /\ [](/\ (req.op = "create" /\ ~StorageFailed) =>
                ((resp.status = 201) <=> ValidSubmission(req.body))
          /\ \A i, j \in 1..Len(bookings) :
                (i # j /\ SameFields(bookings[i], bookings[j]))
                    => bookings[i].id # bookings[j].id)
    /\ [][ (req'.op = "create" /\ ValidSubmission(req'.body) /\ ~StorageFailed') =>
              /\ Len(bookings') = Len(bookings) + 1
              /\ resp'.status = 201
              /\ resp'.booking = bookings'[Len(bookings')] ]_vars

\* The same submission was accepted twice: two rows with the same fields and
\* different identifiers are stored, the second just answered 201.
C16_Witness ==
    /\ Len(bookings) = 2
    /\ SameFields(bookings[1], bookings[2])
    /\ bookings[1].id # bookings[2].id
    /\ req.op = "create"
    /\ resp.status = 201
    /\ resp.booking = bookings[2]

\* The request body has an id member.
SuppliesId(body) == body.syntax /\ "id" \in DOMAIN body.obj

\* C29: the identifier of a created booking is the one the table assigns:
\* the row a POST /book inserts has the identifier after the largest one
\* assigned so far and the fields of the body, and a 201 response carries
\* that row, whether or not the body has an id member and whatever its
\* value.
C29_SuppliedIdIgnored ==
    [][ (req'.op = "create" /\ Len(bookings') > Len(bookings)) =>
            LET row == bookings'[Len(bookings')]
            IN  /\ Len(bookings') = Len(bookings) + 1
                /\ row.id = (IF MaxId(bookings) > seq THEN MaxId(bookings) ELSE seq) + 1
                /\ EchoesTrimmed(row, req'.body)
                /\ resp'.status = 201 => resp'.booking = row ]_vars

\* Two requests with the same fields, of which the second supplied the id
\* 7, were answered 201: the rows have the identifiers 1 and 2.
C29_Witness ==
    /\ req.op = "create"
    /\ SuppliesId(req.body)
    /\ req.body.obj["id"].n = 7
    /\ resp.status = 201
    /\ Len(bookings) = 2
    /\ SameFields(bookings[1], bookings[2])
    /\ bookings[1].id = 1
    /\ resp.booking.id = 2

(***************************************************************************)
(* Properties of concurrent Create requests (specification SpecConcurrent). *)
(***************************************************************************)

\* The rows of the table that carry the identifier id.
RowsWithId(id) == {i \in 1..Len(bookings) : bookings[i].id = id}

\* The INSERT of request p was executed by the table.
Inserted(p) == inflight[p].calls # <<>> /\ inflight[p].calls[1] = DbCall("Exec", TRUE)

\* Request p was answered 201.
Answered201(p) == inflight[p].pc = "done" /\ inflight[p].resp.status = 201

\* C17: however the steps of concurrent POST /book requests interleave, a
\* valid request whose storage calls succeed is answered 201; each request
\* whose INSERT was executed has exactly one row, with its own fields, and
\* the table holds no other row; no two 201 responses carry the same
\* identifier; the identifier of a 201 response is that of the row the same
\* request inserted; and a request that is not finished can always take its
\* next step, whatever the positions of the other requests.
C17_ConcurrentCreates ==
    /\ \A p \in Requests :
          LET h == inflight[p]
          IN  /\ (h.pc = "done" /\ ValidSubmission(h.body)
                    /\ \A i \in 1..Len(h.calls) : h.calls[i].ok) => Answered201(p)
              /\ (h.pc \in {"lastid", "done"} /\ ValidSubmission(h.body)
                    /\ (h.calls # <<>> /\ h.calls[1].ok)) => Inserted(p)
              /\ Inserted(p) =>
                    /\ Cardinality(RowsWithId(h.result)) = 1
                    /\ \A i \in RowsWithId(h.result) : EchoesTrimmed(bookings[i], h.body)
              /\ ~Inserted(p) => h.result = 0
              /\ Answered201(p) =>
                    /\ Inserted(p)
                    /\ h.resp.booking.id = h.result
                    /\ EchoesTrimmed(h.resp.booking, h.body)
                    /\ \E i \in 1..Len(bookings) : bookings[i] = h.resp.booking
              /\ h.pc # "done" => ENABLED HandlerStep(p)
    /\ Len(bookings) = Cardinality({p \in Requests : Inserted(p)})
    /\ \A p, q \in Requests :
          (p # q /\ Inserted(p) /\ Inserted(q)) => inflight[p].result # inflight[q].result
    /\ \A p, q \in Requests :
          (p # q /\ Answered201(p) /\ Answered201(q))
              => inflight[p].resp.booking.id # inflight[q].resp.booking.id

\* Two requests are in flight together: the first has inserted its row and
\* has not asked for its identifier yet, while the second has inserted its
\* row after it and was answered 201 with the later identifier.
C17_Witness ==
    /\ inflight[1].pc = "lastid"
    /\ Inserted(1)
    /\ Answered201(2)
    /\ inflight[2].resp.booking.id > inflight[1].result
    /\ SameFields(inflight[2].resp.booking, inflight[1].booking)

(***************************************************************************)
(* Properties of the validator as a normalizer (specification              *)
(* SpecNormalize).                                                         *)
(***************************************************************************)

\* t is s without its leading and trailing whitespace: a stretch of s that
\* neither starts nor ends with a whitespace character, with nothing but
\* whitespace before and after it.
IsTrimOf(t, s) ==
    /\ t # <<>> => (~IsSpace(t[1]) /\ ~IsSpace(t[Len(t)]))
    /\ \E i \in 1..(Len(s) + 1) :
          /\ i + Len(t) - 1 <= Len(s)
          /\ t = SubSeq(s, i, i + Len(t) - 1)
          /\ \A k \in 1..Len(s) : (k < i \/ k > i + Len(t) - 1) => IsSpace(s[k])

\* C18: on return of validateBooking the name, the email and the phone of
\* the struct are those passed in without their leading and trailing
\* whitespace, with or without violations; date, time, duration, guests and
\* id are as passed in; and validating the returned struct again returns
\* the same struct and the same violations.
C18_NormalizesInPlace ==
    vpc = "ret" =>
        /\ IsTrimOf(vb.name, vin.name)
        /\ IsTrimOf(vb.email, vin.email)
        /\ IsTrimOf(vb.phone, vin.phone)
        /\ vb.date = vin.date
        /\ vb.time = vin.time
        /\ vb.duration = vin.duration
        /\ vb.guests = vin.guests
        /\ vb.id = vin.id
        /\ validateBooking(vb).b = vb
        /\ validateBooking(vb).errs = verrs

\* A struct with an id and with blanks around name, email, phone, date and
\* time was validated and found in violation: the first three are trimmed,
\* date and time still carry their blanks.
C18_Witness ==
    /\ vpc = "ret"
    /\ verrs # <<>>
    /\ vin.id # 0
    /\ vb.name # vin.name /\ vb.name # <<>>
    /\ vb.email # vin.email
    /\ vb.phone # vin.phone
    /\ vb.date # TrimSpace(vb.date)
    /\ vb.time # TrimSpace(vb.time)

(***************************************************************************)
(* Properties of the numeric rules (specification SpecRanges).             *)
(***************************************************************************)

\* The member k of the object of the request validated, and whether it has one.
HasMember(k) == k \in DOMAIN req.body.obj
MemberNumber(k) == req.body.obj[k].n

\* C19: the duration of a request is accepted exactly when it is an integer
\* from 1 to 8 and the guests exactly when they are an integer from 1 to
\* 100; 0, 9 and the negatives (0, 101 and the negatives) get the range
\* message, 1 and 8 (1 and 100) do not; a request without the member gets
\* the message as the value 0 does.
C19_RangesExact ==
    vpc = "ret" =>
        /\ HasMember("duration") =>
              LET n == MemberNumber("duration")
              IN  /\ (MsgDuration \notin Range(verrs)) <=> (1 <= n /\ n <= 8)
                  /\ (n = 0 \/ n = 9 \/ n < 0) => Count(verrs, MsgDuration) = 1
                  /\ (n = 1 \/ n = 8) => Count(verrs, MsgDuration) = 0
                  /\ vb.duration = n
        /\ ~HasMember("duration") =>
              /\ vb.duration = 0
              /\ Count(verrs, MsgDuration) = 1
        /\ HasMember("guests") =>
              LET n == MemberNumber("guests")
              IN  /\ (MsgGuests \notin Range(verrs)) <=> (1 <= n /\ n <= 100)
                  /\ (n = 0 \/ n = 101 \/ n < 0) => Count(verrs, MsgGuests) = 1
                  /\ (n = 1 \/ n = 100) => Count(verrs, MsgGuests) = 0
                  /\ vb.guests = n
        /\ ~HasMember("guests") =>
              /\ vb.guests = 0
              /\ Count(verrs, MsgGuests) = 1

\* A request without duration and with 100 guests was validated: the
\* duration message is the only one.
C19_Witness ==
    /\ vpc = "ret"
    /\ ~HasMember("duration")
    /\ HasMember("guests")
    /\ MemberNumber("guests") = 100
    /\ verrs = <<MsgDuration>>

(***************************************************************************)
(* Properties of the server with restarts (specification SpecRestart).     *)
(***************************************************************************)

\* C21: a start of the backend (db.Init) on a database that holds bookings
\* leaves every stored row and the identifier sequence as they were, and
\* every identifier assigned by an insert, before or after a restart, is
\* greater than every identifier assigned earlier: none is reused.
C21_RestartKeepsData ==
    /\ [](IdsIncreasing /\ MaxId(bookings) <= seq)
    /\ [][ /\ req'.op = "init" => (bookings' = bookings /\ seq' = seq)
           /\ SubSeq(bookings', 1, Len(bookings)) = bookings
           /\ Len(bookings') > Len(bookings) =>
                 /\ bookings'[Len(bookings')].id > seq
                 /\ \A i \in 1..Len(bookings) :
                       bookings'[Len(bookings')].id > bookings[i].id ]_vars

\* The backend was started successfully on a database that holds two rows,
\* which are still there.
C21_Witness ==
    /\ req.op = "init"
    /\ Serving
    /\ Len(bookings) = 2
    /\ bookings[1].id < bookings[2].id
    /\ seq = bookings[2].id

(***************************************************************************)
(* Properties of the Home page (specifications SpecHome and SpecHomeLive). *)
(***************************************************************************)

\* The health fetches that have settled without an ok response.
HealthFailures == {i \in 1..Len(home.outcomes) : home.outcomes[i] # "ok"}

\* C22: a mount of the Home page issues at most 6 GET /health requests, the
\* first and one per failure up to the fifth; backendStatus is 'waking'
\* until the first ok response makes it 'ready' or the sixth failure makes
\* it 'error'; once it is 'ready' or 'error' no request is in flight, none
\* is scheduled, none is issued any more and the status stays as it is.
C22_HealthCheckBounded ==
    /\ [](/\ home.requests <= 6
          /\ ~home.mounted => (home.backendStatus = "waking" /\ home.requests = 0)
          /\ home.mounted =>
                home.requests + (IF home.timer THEN 1 ELSE 0)
                    = (IF home.attempt < 6 THEN home.attempt + 1 ELSE 6)
          /\ home.backendStatus = "ready" =>
                /\ home.outcomes # <<>>
                /\ home.outcomes[Len(home.outcomes)] = "ok"
                /\ Cardinality(HealthFailures) = Len(home.outcomes) - 1
          /\ home.backendStatus = "error" =>
                /\ Len(home.outcomes) = 6
                /\ Cardinality(HealthFailures) = 6
                /\ home.requests = 6
          /\ (~home.cancelled /\ Cardinality(HealthFailures) < Len(home.outcomes))
                => home.backendStatus = "ready"
          /\ (~home.cancelled /\ Cardinality(HealthFailures) = 6)
                => home.backendStatus = "error"
          /\ home.backendStatus # "waking" => (~home.fetching /\ ~home.timer))
    /\ [][ home.backendStatus # "waking" =>
              /\ home'.backendStatus = home.backendStatus
              /\ home'.requests = home.requests
              /\ ~home'.fetching
              /\ ~home'.timer ]_vars

\* The sixth request of a mounted page, sent after five failures, got an ok
\* response: the status is 'ready'.
C22_Witness ==
    /\ home.mounted
    /\ ~home.cancelled
    /\ home.requests = 6
    /\ home.backendStatus = "ready"

\* C23: while the Home page stays mounted, with every fetch settling in the
\* end, backendStatus leaves 'waking': a mounted page is eventually 'ready'
\* or 'error', unless it is unmounted first.
C23_LeavesWaking ==
    (home.mounted /\ ~home.cancelled)
        ~> (home.backendStatus # "waking" \/ home.cancelled)

\* A mounted page saw six fetches fail, by rejections and by responses that
\* were not ok, and ended in 'error'.
C23_Witness ==
    /\ home.mounted
    /\ ~home.cancelled
    /\ home.backendStatus = "error"
    /\ \E i, j \in 1..Len(home.outcomes) :
          home.outcomes[i] = "reject" /\ home.outcomes[j] = "notok"

\* C24: after the unmount of the Home page no step changes backendStatus or
\* the attempt count and no step schedules a timer; the only request that
\* can still be issued is that of a timer that was pending at the unmount.
C24_UnmountStopsUpdates ==
    /\ [](home.cancelled => home.late <= (IF home.timerAtUnmount THEN 1 ELSE 0))
    /\ [][ home.cancelled =>
              /\ home'.backendStatus = home.backendStatus
              /\ home'.attempt = home.attempt
              /\ home'.timer => home.timer
              /\ home'.requests > home.requests => home.timer ]_vars

\* The page was unmounted while a timer was pending; the timer issued a
\* request, which got an ok response, and backendStatus is still 'waking'.
C24_Witness ==
    /\ home.cancelled
    /\ home.timerAtUnmount
    /\ home.late = 1
    /\ ~home.fetching
    /\ home.outcomes[Len(home.outcomes)] = "ok"
    /\ home.backendStatus = "waking"

(***************************************************************************)
(* Properties of the AdminDashboard page (specification SpecAdmin).        *)
(***************************************************************************)

\* The last step was the end of a fetchBookings call with one of outcomes.
Settled(a, outcomes) == a.event.op = "settle" /\ a.event.outcome \in outcomes

\* C25: authenticated becomes true, and 'adminToken' is written, only when
\* a GET /bookings sent with that token was answered successfully; a 401
\* removes the stored token and sets authenticated to false on the page
\* that made the call; so a stored token is always one the server accepted,
\* and the dashboard is rendered only when authenticated.  (The token field
\* may hold another text by then: it can be edited while the call runs.)
C25_TokenStoredAfterSuccess ==
    /\ [](/\ sessionStorage.adminToken.set =>
                /\ sessionStorage.adminToken.val \in admin.accepted
                /\ ConfiguredSecret # ""
                /\ sessionStorage.adminToken.val = ConfiguredSecret
          /\ admin.authenticated => admin.accepted # {}
          /\ AdminView = "dashboard" => admin.authenticated)
    /\ [][ /\ (admin'.authenticated /\ ~admin.authenticated) =>
                /\ Settled(admin', {"ok"})
                /\ admin'.event.live
                /\ admin'.event.token \in admin'.accepted
           /\ (sessionStorage'.adminToken.set /\ sessionStorage' # sessionStorage) =>
                /\ Settled(admin', {"ok"})
                /\ sessionStorage'.adminToken.val = admin'.event.token
           /\ Settled(admin', {"401"}) =>
                /\ ~sessionStorage'.adminToken.set
                /\ admin'.event.live => ~admin'.authenticated ]_vars

\* A page mounted with a stored token restored the session: it is
\* authenticated with that token and shows the listing.
C25_Witness ==
    /\ admin.mounted
    /\ admin.authenticated
    /\ admin.bookings # <<>>
    /\ sessionStorage.adminToken = Present(admin.token)
    /\ AdminView = "dashboard"
    /\ Settled(admin, {"ok"})

\* C26: from a handleLogout until a login made after it succeeds, the page
\* is not authenticated, it holds no bookings and sessionStorage holds no
\* 'adminToken', whatever fetchBookings calls were in flight at the logout;
\* a mount in that time sends no request.
C26_LogoutIsFinal ==
    admin.loggedOut =>
        /\ ~admin.authenticated
        /\ admin.bookings = <<>>
        /\ ~sessionStorage.adminToken.set
        /\ admin.event.op = "mount" =>
              \A i \in 1..Len(admin.fetches) : ~admin.fetches[i].live

\* C27: a fetchBookings call that ends with a response that is not ok and
\* not 401, with a rejected fetch or with a body that does not parse leaves
\* authenticated, the bookings, the token and sessionStorage as they were
\* and sets the error message; when a call of the mounted page has ended,
\* however it ended, loading is false.
C27_FailureKeepsSession ==
    /\ [](admin.loading <=> \E i \in 1..Len(admin.fetches) : admin.fetches[i].live)
    /\ [][ /\ Settled(admin', {"notok", "reject", "parse"}) =>
                /\ admin'.authenticated = admin.authenticated
                /\ admin'.bookings = admin.bookings
                /\ admin'.token = admin.token
                /\ sessionStorage' = sessionStorage
                /\ admin'.event.live =>
                      admin'.error = (IF admin'.event.outcome = "notok"
                                      THEN "Failed to fetch bookings."
                                      ELSE "Could not connect to server.")
           /\ (Settled(admin', {"401", "notok", "reject", "parse", "ok"})
                 /\ admin'.event.live) => ~admin'.loading ]_vars

\* The page was mounted with a stored token and the server answered its
\* request with a 500: the token is still stored, the error is shown.
C27_Witness ==
    /\ admin.mounted
    /\ Settled(admin, {"notok"})
    /\ admin.event.live
    /\ sessionStorage.adminToken = Present(admin.token)
    /\ ~admin.authenticated
    /\ ~admin.loading
    /\ admin.error = "Failed to fetch bookings."

(***************************************************************************)
(* Properties of the BookingForm page (specification SpecForm).            *)
(***************************************************************************)
\* The step is the start of a submission, or the settling of a call.
SubmissionStarts == Len(form'.calls) > Len(form.calls)
CallSettles == Len(form'.calls) < Len(form.calls)

Navigates ==
    /\ form'.location.pathname = "/confirmation"
    /\ form'.location # form.location

\* C28: submitting is true exactly while a submission of the page shown is
\* in flight, so from its start until its request settles and false after
\* it on every path; a submission starts with the errors cleared; the
\* router goes to /confirmation only when a call settles with an ok
\* response, and then with the booking of that response, which the server
\* stored; a call of the page shown that settles otherwise leaves the
\* location alone and shows the violation list of its response, or its
\* single error, or the connection error when there is no response.
C28_SubmitLifecycle ==
    /\ [](/\ form.submitting <=> \E i \in 1..Len(form.calls) : form.calls[i].live
          /\ form.submitting => form.mounted)
    /\ [][/\ SubmissionStarts => form'.submitting /\ form'.errors = <<>>
          /\ Navigates =>
                /\ CallSettles
                /\ form'.event.delivered
                /\ form'.event.response.status \in 200..299
                /\ form'.location.hasState
                /\ form'.location.booking = form'.event.response.booking
                /\ form'.location.booking \in Range(bookings)
          /\ (CallSettles /\ form'.event.live) =>
                /\ ~form'.submitting
                /\ IF form'.event.delivered /\ form'.event.response.status \in 200..299
                   THEN Navigates
                   ELSE /\ form'.location = form.location
                        /\ form'.mounted
                        /\ form'.errors =
                              (IF ~form'.event.delivered THEN <<ConnectError>>
                               ELSE IF form'.event.response.errors # <<>>
                               THEN form'.event.response.errors
                               ELSE <<form'.event.response.error>>)
                        /\ form'.errors[1] # ""]_vars

\* Two submissions were stored as rows 1 and 2 and the response of the
\* second came back first: the page shown made it, the router is on
\* /confirmation with booking 2 and the first call is still in flight.
C28_Witness ==
    /\ Len(bookings) = 2
    /\ form.location = Location("/confirmation", TRUE, bookings[2])
    /\ bookings[2].id = 2
    /\ form.event.op = "settle"
    /\ form.event.live
    /\ form.event.delivered
    /\ form.event.response.status = 201
    /\ Len(form.calls) = 1
    /\ form.calls[1].resp.booking = bookings[1]
    /\ ~form.submitting

====
